---- MODULE Spec2Model ----
(***************************************************************************)
(* Model of the release tracker: the Telegram markup escaper, the          *)
(* length-driven dispatch policy (combined / split / Telegraph fallback),  *)
(* the edit path, and the two product checkers with their persisted        *)
(* version file and message-state record.                                  *)
(*                                                                         *)
(* Text is a sequence of runs [ch, n, esc]: character class ch repeated n  *)
(* times, esc = TRUE when every character of the run carries a backslash.  *)
(* Structural characters ([ ] ( ) bt * and the dots of a version number)   *)
(* always come as runs of length 1, so the regular expressions of the      *)
(* source can be matched run by run.                                       *)
(***************************************************************************)
EXTENDS Integers, Sequences, FiniteSets, TLC

\* absent values: a label, a version, a message id, a url, a digest
None      == "none"
NoVersion == 0
NoId      == 0
NoUrl     == <<>>
NoHash    == -1

\* ------------------------------------------------------------------------
\* Text runs
\* ------------------------------------------------------------------------
R(c, k) == [ch |-> c, n |-> k, esc |-> FALSE]

\* characters of the class of escape_markdown (the backslash is in the class
\* because re.escape keeps the backslashes of the raw string)
EscapeChars ==
    {"_", "bt", "[", "]", "(", ")", "~", ">", "#", "+", "=", "|", "{", "}",
     ".", "!", "-", "bs"}

Whitespace == {" ", "nl"}

\* characters that delimit link, code and bold spans: always runs of length 1
Structural == {"[", "]", "(", ")", "bt", "*"}

\* number of code units of one repetition of a run
UnitLen(c) ==
    CASE c = "lianjie:" -> 3      \* the 3-character label replaced by Source:
      [] c = "Source:"  -> 7
      [] c = "notrans"  -> 5      \* the 5-character no-translation placeholder
      [] c = "nonotes"  -> 8      \* the 8-character no-release-notes placeholder
      [] c = "url"      -> 40     \* a Telegraph or release URL, n is its identity
      [] c = "LINK"     -> 7      \* "\x00LINK<idx>\x00", n is idx
      [] c = "CODE"     -> 7      \* "\x01CODE<idx>\x01", n is idx
      [] OTHER          -> 1

IsIndexed(c) == c \in {"url", "LINK", "CODE"}

RunLen(r) ==
    IF IsIndexed(r.ch) THEN UnitLen(r.ch)
    ELSE r.n * UnitLen(r.ch) * (IF r.esc THEN 2 ELSE 1)

RECURSIVE TextLen(_)
TextLen(t) == IF t = <<>> THEN 0 ELSE RunLen(Head(t)) + TextLen(Tail(t))

\* adjacent runs of the same unescaped character are one run
RECURSIVE Normalize(_)
Normalize(t) ==
    IF Len(t) < 2 THEN t
    ELSE IF /\ t[1].ch = t[2].ch /\ t[1].esc = t[2].esc
            /\ ~IsIndexed(t[1].ch) /\ t[1].ch \notin Structural
         THEN Normalize(<<[t[1] EXCEPT !.n = t[1].n + t[2].n]>> \o SubSeq(t, 3, Len(t)))
         ELSE <<t[1]>> \o Normalize(Tail(t))

\* index of the first run at or after i whose character is c, 0 if none
RECURSIVE FirstAt(_, _, _)
FirstAt(t, i, c) ==
    IF i > Len(t) THEN 0
    ELSE IF t[i].ch = c THEN i
    ELSE FirstAt(t, i + 1, c)

\* index of the first run at or after i that is not whitespace, Len(t)+1 if none
RECURSIVE SkipWs(_, _)
SkipWs(t, i) ==
    IF i > Len(t) THEN i
    ELSE IF t[i].ch \in Whitespace THEN SkipWs(t, i + 1)
    ELSE i

\* index of the last newline run within i..j, 0 if none
RECURSIVE LastNewline(_, _, _)
LastNewline(t, i, j) ==
    IF j < i THEN 0
    ELSE IF t[j].ch = "nl" THEN j
    ELSE LastNewline(t, i, j - 1)

\* ------------------------------------------------------------------------
\* escape_markdown
\* ------------------------------------------------------------------------
escape_markdown(t) ==
    [i \in 1..Len(t) |->
        IF t[i].ch \in EscapeChars THEN [t[i] EXCEPT !.esc = TRUE] ELSE t[i]]

\* ------------------------------------------------------------------------
\* clean_for_telegram
\* ------------------------------------------------------------------------
\* re.sub(r'^#{1,6}\s*', '', text, flags=re.MULTILINE)
RECURSIVE StripHeadings(_, _, _)
StripHeadings(t, i, bol) ==
    IF i > Len(t) THEN <<>>
    ELSE IF bol /\ t[i].ch = "#"
         THEN IF t[i].n <= 6
              THEN LET j == SkipWs(t, i + 1)
                   IN  StripHeadings(t, j, j > i + 1 /\ t[j - 1].ch = "nl")
              ELSE <<[t[i] EXCEPT !.n = t[i].n - 6]>> \o StripHeadings(t, i + 1, FALSE)
         ELSE <<t[i]>> \o StripHeadings(t, i + 1, t[i].ch = "nl")

\* does d+ . d+ . d+ start at run i
IsVersionAt(t, i) ==
    /\ i + 4 <= Len(t)
    /\ t[i].ch = "1" /\ t[i + 2].ch = "1" /\ t[i + 4].ch = "1"
    /\ t[i + 1].ch = "." /\ t[i + 1].n = 1
    /\ t[i + 3].ch = "." /\ t[i + 3].n = 1

\* re.sub(r'^\d+\.\d+\.\d+\s*$', '', text, flags=re.MULTILINE)
RECURSIVE StripVersionLines(_, _, _)
StripVersionLines(t, i, bol) ==
    IF i > Len(t) THEN <<>>
    ELSE IF bol /\ IsVersionAt(t, i)
         THEN LET j  == SkipWs(t, i + 5)
                  nl == LastNewline(t, i + 5, j - 1)
              IN  IF j > Len(t) THEN <<>>
                  ELSE IF nl = 0
                       THEN <<t[i]>> \o StripVersionLines(t, i + 1, FALSE)
                       ELSE <<R("nl", 1)>> \o StripVersionLines(t, nl + 1, TRUE)
         ELSE <<t[i]>> \o StripVersionLines(t, i + 1, t[i].ch = "nl")

\* re.sub(r'^- ', '• ', text, flags=re.MULTILINE)
RECURSIVE Bullets(_, _, _)
Bullets(t, i, bol) ==
    IF i > Len(t) THEN <<>>
    ELSE IF /\ bol /\ t[i].ch = "-" /\ t[i].n = 1
            /\ i < Len(t) /\ t[i + 1].ch = " "
         THEN <<R("bullet", 1)>> \o Bullets(t, i + 1, FALSE)
         ELSE <<t[i]>> \o Bullets(t, i + 1, t[i].ch = "nl")

\* re.sub(r'\n{3,}', '\n\n', text)
CollapseBlankLines(t) ==
    [i \in 1..Len(t) |->
        IF t[i].ch = "nl" /\ t[i].n >= 3 THEN [t[i] EXCEPT !.n = 2] ELSE t[i]]

\* str.strip()
RECURSIVE Strip(_)
Strip(t) ==
    IF t = <<>> THEN t
    ELSE IF t[1].ch \in Whitespace THEN Strip(Tail(t))
    ELSE IF t[Len(t)].ch \in Whitespace THEN Strip(SubSeq(t, 1, Len(t) - 1))
    ELSE t

clean_for_telegram(text, remove_version) ==
    LET t1 == Normalize(StripHeadings(Normalize(text), 1, TRUE))
        t2 == IF remove_version
              THEN Normalize(StripVersionLines(t1, 1, TRUE))
              ELSE t1
        t3 == Normalize(Bullets(t2, 1, TRUE))
        t4 == CollapseBlankLines(t3)
    IN  Strip(t4)

\* ------------------------------------------------------------------------
\* process_message_for_markdown_v2
\* ------------------------------------------------------------------------
\* end of the match of \[([^\]]+)\]\(([^)]+)\) that starts at run i, 0 if none
LinkEnd(t, i) ==
    IF t[i].ch # "[" THEN 0
    ELSE LET j == FirstAt(t, i + 1, "]")
         IN  IF j < i + 2 \/ j + 1 > Len(t) \/ t[j + 1].ch # "(" THEN 0
             ELSE LET k == FirstAt(t, j + 2, ")")
                  IN  IF k < j + 3 THEN 0 ELSE k

\* re.sub(link_pattern, save_link, text): the text with placeholders and
\* the saved (text, url) pairs
RECURSIVE SaveLinks(_, _, _, _)
SaveLinks(t, i, out, links) ==
    IF i > Len(t) THEN [text |-> out, links |-> links]
    ELSE LET k == LinkEnd(t, i)
         IN  IF k = 0 THEN SaveLinks(t, i + 1, Append(out, t[i]), links)
             ELSE LET j == FirstAt(t, i + 1, "]")
                  IN  SaveLinks(t, k + 1,
                                Append(out, R("LINK", Len(links))),
                                Append(links, [text |-> SubSeq(t, i + 1, j - 1),
                                               url  |-> SubSeq(t, j + 2, k - 1)]))

\* end of the match of DELIM([^DELIM]+)DELIM that starts at run i, 0 if none
\* (the code pattern with the backtick, the bold pattern with the star)
PairEnd(t, i, delim) ==
    IF t[i].ch # delim THEN 0
    ELSE LET j == FirstAt(t, i + 1, delim)
         IN  IF j < i + 2 THEN 0 ELSE j

\* re.sub(code_pattern, save_code, text)
RECURSIVE SaveCodes(_, _, _, _)
SaveCodes(t, i, out, codes) ==
    IF i > Len(t) THEN [text |-> out, codes |-> codes]
    ELSE LET j == PairEnd(t, i, "bt")
         IN  IF j = 0 THEN SaveCodes(t, i + 1, Append(out, t[i]), codes)
             ELSE SaveCodes(t, j + 1,
                            Append(out, R("CODE", Len(codes))),
                            Append(codes, SubSeq(t, i + 1, j - 1)))

\* the loop over re.finditer(bold_pattern, text): the text before each bold
\* span escaped, the bold content escaped between its two stars, then the rest
RECURSIVE EscapeAroundBold(_, _, _)
EscapeAroundBold(t, i, last_end) ==
    IF i > Len(t) THEN escape_markdown(SubSeq(t, last_end, Len(t)))
    ELSE LET j == PairEnd(t, i, "*")
         IN  IF j = 0 THEN EscapeAroundBold(t, i + 1, last_end)
             ELSE escape_markdown(SubSeq(t, last_end, i - 1))
                    \o <<R("*", 1)>> \o escape_markdown(SubSeq(t, i + 1, j - 1))
                    \o <<R("*", 1)>>
                    \o EscapeAroundBold(t, j + 1, j + 1)

\* result.replace(placeholder, replacement) for the placeholder (kind, idx)
RECURSIVE ReplacePlaceholder(_, _, _, _)
ReplacePlaceholder(t, kind, idx, replacement) ==
    IF t = <<>> THEN <<>>
    ELSE (IF t[1].ch = kind /\ t[1].n = idx THEN replacement ELSE <<t[1]>>)
           \o ReplacePlaceholder(Tail(t), kind, idx, replacement)

RECURSIVE RestoreLinks(_, _, _)
RestoreLinks(result, links, idx) ==
    IF idx >= Len(links) THEN result
    ELSE RestoreLinks(
           ReplacePlaceholder(result, "LINK", idx,
               <<R("[", 1)>> \o escape_markdown(links[idx + 1].text)
                 \o <<R("]", 1), R("(", 1)>> \o links[idx + 1].url \o <<R(")", 1)>>),
           links, idx + 1)

RECURSIVE RestoreCodes(_, _, _)
RestoreCodes(result, codes, idx) ==
    IF idx >= Len(codes) THEN result
    ELSE RestoreCodes(
           ReplacePlaceholder(result, "CODE", idx,
               <<R("bt", 1)>> \o escape_markdown(codes[idx + 1]) \o <<R("bt", 1)>>),
           codes, idx + 1)

process_message_for_markdown_v2(text) ==
    LET l      == SaveLinks(text, 1, <<>>, <<>>)
        c      == SaveCodes(l.text, 1, <<>>, <<>>)
        result == EscapeAroundBold(c.text, 1, 1)
    IN  RestoreCodes(RestoreLinks(result, l.links, 0), c.codes, 0)

\* len(process_message_for_markdown_v2(message))
ProcessedLen(message) == TextLen(process_message_for_markdown_v2(message))

\* ------------------------------------------------------------------------
\* _build_bilingual_messages
\* ------------------------------------------------------------------------
MAX_MESSAGE_LENGTH == 4096

\* original_clean.replace(<3-character label>, 'Source:')
ReplaceLabel(t) ==
    [i \in 1..Len(t) |->
        IF t[i].ch = "lianjie:" THEN [t[i] EXCEPT !.ch = "Source:"] ELSE t[i]]

\* "\n".join(lines)
RECURSIVE JoinLines(_)
JoinLines(lines) ==
    IF lines = <<>> THEN <<>>
    ELSE IF Len(lines) = 1 THEN lines[1]
    ELSE lines[1] \o <<R("nl", 1)>> \o JoinLines(Tail(lines))

\* f"*{title} {version} <word>*" or f"*{title} [{version}]({version_url}) <word>*";
\* word is 'Released' (8 characters) or its 2-character Chinese counterpart
TitleLine(title, version, version_url, wordLen) ==
    <<R("*", 1)>> \o title \o <<R(" ", 1)>>
      \o (IF version_url # NoUrl
          THEN <<R("[", 1)>> \o version \o <<R("]", 1), R("(", 1)>>
                 \o version_url \o <<R(")", 1)>>
          ELSE version)
      \o <<R(" ", 1), R("a", wordLen), R("*", 1)>>

build_bilingual_messages(version, original, translated, title, version_url) ==
    LET original_clean   == clean_for_telegram(original, TRUE)
        translated_clean == IF translated # <<>>
                            THEN clean_for_telegram(translated, TRUE)
                            ELSE <<>>
        original_en      == ReplaceLabel(original_clean)
        en_title         == TitleLine(title, version, version_url, 8)
        cn_title         == TitleLine(title, version, version_url, 2)
        en_lines         == IF title # <<>> THEN <<en_title, <<>>, original_en>>
                            ELSE <<original_en>>
        en_message       == JoinLines(en_lines)
        cn_content       == IF translated_clean # <<>> THEN translated_clean
                            ELSE <<R("notrans", 1)>>
        cn_lines         == IF title # <<>> THEN <<cn_title, <<>>, cn_content>>
                            ELSE <<cn_content>>
        cn_message       == JoinLines(cn_lines)
        combined_lines   == IF translated_clean # <<>>
                            THEN en_lines \o <<<<>>, translated_clean>>
                            ELSE en_lines
        combined_message == JoinLines(combined_lines)
        processed_combined == process_message_for_markdown_v2(combined_message)
        processed_en       == process_message_for_markdown_v2(en_message)
        processed_cn       == process_message_for_markdown_v2(cn_message)
        combined_length  == TextLen(processed_combined)
        en_length        == TextLen(processed_en)
        cn_length        == TextLen(processed_cn)
    IN  [en_message          |-> en_message,
         cn_message          |-> cn_message,
         combined_message    |-> combined_message,
         is_oversized        |-> combined_length > MAX_MESSAGE_LENGTH,
         is_single_oversized |-> \/ en_length > MAX_MESSAGE_LENGTH
                                 \/ cn_length > MAX_MESSAGE_LENGTH,
         combined_length     |-> combined_length,
         en_length           |-> en_length,
         cn_length           |-> cn_length,
         en_title            |-> en_title,
         cn_title            |-> cn_title]

\* ------------------------------------------------------------------------
\* The texts of the model: products, release notes, translations
\* ------------------------------------------------------------------------
Products == {"claude_code", "codex"}

\* release-note bodies
Bodies ==
    << <<R("a", 100)>>,                                            \* short
       <<R("a", 3000)>>,                                           \* long
       <<>>,                                                       \* no notes
       <<R(".", 3000)>>,                                           \* doubles when escaped
       <<R("[", 1), R("a", 1), R("]", 1), R("(", 1), R(".", 3000)>>, \* unclosed link
       <<R("a", 4064)>> >>                                         \* fills one message

\* texts the translation service can answer with; the first is its failure
Translations ==
    << <<>>,
       <<R("a", 100)>>,
       <<R("a", 3000)>>,
       <<R("a", 5000)>>,
       <<R(")", 1)>> >>

BodyIds        == DOMAIN Bodies
TranslationIds == DOMAIN Translations

\* a version number d.d.d
VersionText == <<R("1", 1), R(".", 1), R("1", 1), R(".", 1), R("1", 1)>>

\* title="Claude Code" / title="OpenAI Codex"
Title(p) ==
    IF p = "claude_code" THEN <<R("a", 6), R(" ", 1), R("a", 4)>>
    ELSE <<R("a", 6), R(" ", 1), R("a", 5)>>

\* the Codex checker passes the release link, the Claude Code checker none
ReleaseUrl == 100
VersionUrl(p) == IF p = "codex" THEN <<R("url", ReleaseUrl)>> ELSE NoUrl

\* latest_content: the section "## d.d.d" of CHANGELOG.md with its trailing
\* blank lines dropped (Claude Code), the cleaned release body (Codex)
Content(p, b) ==
    IF p = "claude_code"
    THEN <<R("#", 2), R(" ", 1)>> \o VersionText
           \o (IF Bodies[b] = <<>> THEN <<>> ELSE <<R("nl", 2)>> \o Bodies[b])
    ELSE Bodies[b]

\* original=latest_content (Claude Code); latest_content or the 8-character
\* no-notes placeholder (Codex)
Original(p, b) ==
    IF p = "codex" /\ Content(p, b) = <<>> THEN <<R("nonotes", 1)>> ELSE Content(p, b)


\* ------------------------------------------------------------------------
\* Transport and Telegraph fallback.  The answers of the remote services are
\* inputs: ok says whether the Bot API accepted the call, id is the message id
\* it assigned, page1 and page2 are the outcomes of the createPage requests.
\* ------------------------------------------------------------------------
PageOutcomes == {"ok", "CONTENT_TOO_BIG", "ERROR"}

\* the URLs that occur in a text
UrlsIn(text) == {text[i].n : i \in {k \in 1..Len(text) : text[k].ch = "url"}}

\* what the transport puts on the wire for a message: the text after
\* process_message_for_markdown_v2, of which the length and the URLs are kept
Wire(message) ==
    LET processed == process_message_for_markdown_v2(message)
    IN  [len |-> TextLen(processed), urls |-> UrlsIn(processed)]

\* one call handed to the transport: op is sendMessage or editMessageText,
\* msg names the message passed, wire is what goes on the wire for it;
\* target is the message edited (NoId for a send); ok and id are the answer
Call(op, msg, wire, target, ok, id) ==
    [op |-> op, msg |-> msg, len |-> wire.len, urls |-> wire.urls,
     target |-> target, ok |-> ok, id |-> IF ok THEN id ELSE NoId]

send_telegram_message(ok, id) ==
    [success |-> ok, message_id |-> IF ok THEN id ELSE NoId]

\* "message is not modified" counts as accepted
edit_telegram_message(message_id, ok) ==
    [success |-> ok, message_id |-> IF ok THEN message_id ELSE NoId]

\* url of the page made by the n-th createPage request of a publish
PageUrl(n) == <<R("url", n)>>

create_page(outcome, n) ==
    IF outcome = "ok"
    THEN [success |-> TRUE, url |-> PageUrl(n), error |-> None]
    ELSE [success |-> FALSE, url |-> NoUrl, error |-> outcome]

\* a variant of publish_changelog that tries again after any failure of the
\* first request (the code tries again only after CONTENT_TOO_BIG)
PublishRetryAnyFailure(page1, page2) ==
    LET result == create_page(page1, 1)
    IN  IF result.success
        THEN [success |-> result.success, url |-> result.url, pages |-> 1]
        ELSE LET retry == create_page(page2, 2)
             IN  [success |-> retry.success, url |-> retry.url, pages |-> 2]

\* the second request carries the content without its Changelog section
publish_changelog(page1, page2) ==
    LET result == create_page(page1, 1)
    IN  IF result.success \/ result.error # "CONTENT_TOO_BIG"
        THEN [success |-> result.success, url |-> result.url, pages |-> 1]
        ELSE LET retry == create_page(page2, 2)
             IN  [success |-> retry.success, url |-> retry.url, pages |-> 2]

\* ------------------------------------------------------------------------
\* _strip_changelog_section: the text from the first heading line 'Changelog'
\* (the unit "Changelog", in any case) to the end is removed, then rstrip()
\* ------------------------------------------------------------------------
\* index after the run of "*" that starts at i
RECURSIVE SkipStars(_, _)
SkipStars(t, i) ==
    IF i > Len(t) THEN i
    ELSE IF t[i].ch = "*" THEN SkipStars(t, i + 1)
    ELSE i

\* index of the first of the "*" runs that end at i
RECURSIVE StarsStart(_, _)
StarsStart(t, i) ==
    IF i > 1 /\ t[i - 1].ch = "*" THEN StarsStart(t, i - 1) ELSE i

\* number of "*" within the runs i..j
RECURSIVE StarCount(_, _, _)
StarCount(t, i, j) == IF j < i THEN 0 ELSE t[i].n + StarCount(t, i + 1, j)

\* index of the first of the whitespace runs that end just before j
RECURSIVE WsStart(_, _)
WsStart(t, j) ==
    IF j > 1 /\ t[j - 1].ch \in Whitespace THEN WsStart(t, j - 1) ELSE j

\* ^ with re.MULTILINE: the run i starts a line
AtLineStart(t, i) == i = 1 \/ t[i - 1].ch = "nl"

\* \*{0,2} at the start of a line, ending at the run q: where it starts, 0 if
\* the stars at q are more than two or do not start a line
StarPrefix(t, q) ==
    LET s == StarsStart(t, q)
    IN  IF StarCount(t, s, q) <= 2 /\ AtLineStart(t, s) THEN s ELSE 0

\* ^\*{0,2}#{0,4}\s*Changelog for the unit at j: the run where the match
\* starts, 0 if there is none
ChangelogStart(t, j) ==
    LET w == WsStart(t, j)
        p == w - 1
        prefix ==
            IF p = 0 THEN 1
            ELSE IF t[p].ch = "#"
                 THEN IF t[p].n > 4 THEN 0
                      ELSE IF AtLineStart(t, p) THEN p
                      ELSE IF t[p - 1].ch = "*" THEN StarPrefix(t, p - 1)
                      ELSE 0
            ELSE IF t[p].ch = "*" THEN StarPrefix(t, p)
            ELSE 0
    IN  IF prefix # 0 THEN prefix
        ELSE IF LastNewline(t, w, j - 1) # 0 THEN w
        ELSE 0

\* Changelog\s*\*{0,2}\s*\n for the unit at j
ChangelogEnds(t, j) ==
    LET a == j + 1
        b == SkipWs(t, a)
        c == SkipStars(t, b)
        d == SkipWs(t, c)
    IN  \/ LastNewline(t, a, b - 1) # 0
        \/ /\ c > b
           /\ StarCount(t, b, c - 1) <= 2
           /\ LastNewline(t, c, d - 1) # 0

\* the run at which the first match of the pattern starts, looking at the
\* units "Changelog" from the run i on, 0 if the pattern does not match
RECURSIVE SectionStart(_, _)
SectionStart(t, i) ==
    LET j == FirstAt(t, i, "Changelog")
    IN  IF j = 0 THEN 0
        ELSE IF ChangelogStart(t, j) # 0 /\ ChangelogEnds(t, j)
             THEN ChangelogStart(t, j)
        ELSE SectionStart(t, j + 1)

\* str.rstrip()
RECURSIVE RStrip(_)
RStrip(t) ==
    IF t = <<>> THEN t
    ELSE IF t[Len(t)].ch \in Whitespace THEN RStrip(SubSeq(t, 1, Len(t) - 1))
    ELSE t

strip_changelog_section(text) ==
    LET cut == SectionStart(text, 1)
    IN  RStrip(IF cut = 0 THEN text ELSE SubSeq(text, 1, cut - 1))

\* _build_html(orig, trans): the Markdown parts the page is made of, the
\* translation after a rule when there is one
build_html(orig, trans) ==
    IF trans # <<>> THEN <<orig, <<R("hr", 1)>>, trans>> ELSE <<orig>>

\* the content publish_changelog passes to its first and to its second
\* create_page call
PublishContents(original, translated) ==
    LET trimmed_original   == strip_changelog_section(original)
        trimmed_translated == IF translated # <<>>
                              THEN strip_changelog_section(translated)
                              ELSE <<>>
    IN  <<build_html(original, translated),
          build_html(trimmed_original, trimmed_translated)>>

\* f"{title_line}\n\n[<label>]({telegraph_url})"; the label of the English
\* short message is 'View Full Changelog | ' plus 8 Chinese characters, the
\* label of the Chinese one the 8 Chinese characters alone
ShortMessage(title_line, telegraph_url, english) ==
    title_line \o <<R("nl", 2), R("[", 1)>>
      \o (IF english THEN <<R("a", 20), R("|", 1), R("a", 9)>> ELSE <<R("a", 8)>>)
      \o <<R("]", 1), R("(", 1)>> \o telegraph_url \o <<R(")", 1)>>

\* the pages a publish can return
Pages == {1, 2}

\* everything the dispatch needs of the messages built for a body and a
\* translation, worked out ahead: the two flags, the three lengths, what goes
\* on the wire for the combined, the English and the Chinese message and for
\* the short messages that link to each page
Prepared(msgs) ==
    [is_oversized        |-> msgs.is_oversized,
     is_single_oversized |-> msgs.is_single_oversized,
     combined_length     |-> msgs.combined_length,
     en_length           |-> msgs.en_length,
     cn_length           |-> msgs.cn_length,
     combined            |-> Wire(msgs.combined_message),
     en                  |-> Wire(msgs.en_message),
     cn                  |-> Wire(msgs.cn_message),
     short_en            |-> [n \in Pages |->
                                 Wire(ShortMessage(msgs.en_title, PageUrl(n), TRUE))],
     short_cn            |-> [n \in Pages |->
                                 Wire(ShortMessage(msgs.cn_title, PageUrl(n), FALSE))]]

\* the page a url leads to
PageOf(url) == url[1].n

\* [x] if x else []
IdList(message_id) == IF message_id # NoId THEN <<message_id>> ELSE <<>>

\* ------------------------------------------------------------------------
\* send_bilingual_notification.  e holds the answers of the services for this
\* dispatch: e.r1 and e.r2 for the first and second transport call, e.page1
\* and e.page2 for the createPage requests; id0 is the next free message id.
\* The result carries, besides the returned dict, the calls made, in order,
\* the number of publish_changelog and createPage invocations and the
\* rendering chosen.
\* ------------------------------------------------------------------------
\* a variant of FallbackSend that sends the English message as it is when the
\* publish fails (the code does not behave so)
FallbackSendDespiteFailure(msgs, e, id0) ==
    LET telegraph_result == publish_changelog(e.page1, e.page2)
        result           == send_telegram_message(e.r1, id0)
    IN  [success |-> result.success,
         message_ids |-> IdList(result.message_id),
         telegraph_url |-> telegraph_result.url,
         calls |-> <<Call("send", IF telegraph_result.success THEN "short_en" ELSE "en",
                         IF telegraph_result.success
                         THEN msgs.short_en[PageOf(telegraph_result.url)] ELSE msgs.en,
                         NoId, e.r1, id0)>>,
         publishes |-> 1, pages |-> telegraph_result.pages,
         rendering |-> "ExternalFallback"]

\* a single-language message is too long: publish to Telegraph and send one
\* short message with the link
FallbackSend(msgs, e, id0) ==
    LET telegraph_result == publish_changelog(e.page1, e.page2)
    IN  IF ~telegraph_result.success
        THEN [success |-> FALSE, message_ids |-> <<>>, telegraph_url |-> NoUrl,
              calls |-> <<>>, publishes |-> 1,
              pages |-> telegraph_result.pages,
              rendering |-> "ExternalFallback"]
        ELSE LET telegraph_url == telegraph_result.url
                 result        == send_telegram_message(e.r1, id0)
             IN  [success |-> result.success,
                  message_ids |-> IdList(result.message_id),
                  telegraph_url |-> telegraph_url,
                  calls |-> <<Call("send", "short_en",
                                  msgs.short_en[PageOf(telegraph_url)],
                                  NoId, e.r1, id0)>>,
                  publishes |-> 1, pages |-> telegraph_result.pages,
                  rendering |-> "ExternalFallback"]

\* the combined message fits: one send
CombinedSend(msgs, e, id0) ==
    LET result == send_telegram_message(e.r1, id0)
    IN  [success |-> result.success,
         message_ids |-> IdList(result.message_id),
         telegraph_url |-> NoUrl,
         calls |-> <<Call("send", "combined", msgs.combined, NoId, e.r1, id0)>>,
         publishes |-> 0, pages |-> 0,
         rendering |-> "Combined"]

\* a variant of SplitSend that gives up when the English message is rejected
\* (the code does not behave so)
SplitSendStopsOnFailure(msgs, e, id0) ==
    LET result1 == send_telegram_message(e.r1, id0)
        result2 == send_telegram_message(e.r2, id0 + 1)
    IN  IF ~result1.success
        THEN [success |-> FALSE, message_ids |-> <<>>, telegraph_url |-> NoUrl,
              calls |-> <<Call("send", "en", msgs.en, NoId, e.r1, id0)>>,
              publishes |-> 0, pages |-> 0, rendering |-> "SplitBilingual"]
        ELSE [success |-> result2.success,
              message_ids |-> IdList(result1.message_id) \o IdList(result2.message_id),
              telegraph_url |-> NoUrl,
              calls |-> <<Call("send", "en", msgs.en, NoId, e.r1, id0),
                          Call("send", "cn", msgs.cn, NoId, e.r2, id0 + 1)>>,
              publishes |-> 0, pages |-> 0, rendering |-> "SplitBilingual"]

\* the combined message is too long: the English message, then the Chinese
\* one; the Bot API numbers the second after the first only if it accepted
\* the first
SplitSend(msgs, e, id0) ==
    LET result1 == send_telegram_message(e.r1, id0)
        id1     == IF e.r1 THEN id0 + 1 ELSE id0
        result2 == send_telegram_message(e.r2, id1)
    IN  [success |-> result1.success /\ result2.success,
         message_ids |-> IdList(result1.message_id) \o IdList(result2.message_id),
         telegraph_url |-> NoUrl,
         calls |-> <<Call("send", "en", msgs.en, NoId, e.r1, id0),
                     Call("send", "cn", msgs.cn, NoId, e.r2, id1)>>,
         publishes |-> 0, pages |-> 0,
         rendering |-> "SplitBilingual"]

\* a variant of SendBilingual that tests the combined length first and splits
\* whenever it is over the limit (the code tests the single lengths first)
SendBilingualSplitFirst(msgs, e, id0) ==
    IF msgs.is_oversized THEN SplitSend(msgs, e, id0)
    ELSE IF msgs.is_single_oversized THEN FallbackSend(msgs, e, id0)
    ELSE CombinedSend(msgs, e, id0)

\* a variant of SendBilingual without the Telegraph branch (the code has it)
SendBilingualNoFallback(msgs, e, id0) ==
    IF ~msgs.is_oversized THEN CombinedSend(msgs, e, id0)
    ELSE SplitSend(msgs, e, id0)

SendBilingual(msgs, e, id0) ==
    IF msgs.is_single_oversized THEN FallbackSend(msgs, e, id0)
    ELSE IF ~msgs.is_oversized THEN CombinedSend(msgs, e, id0)
    ELSE SplitSend(msgs, e, id0)

send_bilingual_notification(version, original, translated, title, version_url, e, id0) ==
    SendBilingual(Prepared(build_bilingual_messages(version, original, translated,
                                                    title, version_url)),
                  e, id0)

\* ------------------------------------------------------------------------
\* edit_bilingual_notification
\* ------------------------------------------------------------------------
\* the loop over enumerate(message_ids) of the Telegraph branch: the k-th
\* tracked message is edited with answer e.r1 (k = 1) or e.r2 (k = 2)
EditShort(message_ids, short_en, short_cn, e) ==
    [k \in 1..Len(message_ids) |->
        Call("edit", IF k = 1 THEN "short_en" ELSE "short_cn",
             IF k = 1 THEN short_en ELSE short_cn,
             message_ids[k], IF k = 1 THEN e.r1 ELSE e.r2, message_ids[k])]

\* a variant of EditGrow that does not add the id of the new Chinese message
\* to the tracked ids (the code does not behave so)
EditGrowKeepsIds(message_ids, msgs, e, id0) ==
    LET result1 == edit_telegram_message(message_ids[1], e.r1)
        result2 == send_telegram_message(e.r2, id0)
    IN  [success |-> result1.success /\ result2.success,
         message_ids |-> IF result1.success THEN message_ids ELSE <<>>,
         calls |-> <<Call("edit", "en", msgs.en,
                          message_ids[1], e.r1, message_ids[1]),
                     Call("send", "cn", msgs.cn, NoId, e.r2, id0)>>,
         publishes |-> 0, pages |-> 0, rendering |-> "SplitBilingual"]

\* one tracked message and the combined message no longer fits: the tracked
\* message becomes the English one, the Chinese one is sent as a new message
EditGrow(message_ids, msgs, e, id0) ==
    LET result1 == edit_telegram_message(message_ids[1], e.r1)
        result2 == send_telegram_message(e.r2, id0)
        new_ids == message_ids \o IdList(result2.message_id)
    IN  [success |-> result1.success /\ result2.success,
         message_ids |-> IF result1.success THEN new_ids ELSE <<>>,
         calls |-> <<Call("edit", "en", msgs.en,
                          message_ids[1], e.r1, message_ids[1]),
                     Call("send", "cn", msgs.cn, NoId, e.r2, id0)>>,
         publishes |-> 0, pages |-> 0, rendering |-> "SplitBilingual"]

\* a single-language message is too long: publish to Telegraph and edit
\* every tracked message into a short one with the link
EditFallback(message_ids, msgs, e) ==
    LET telegraph_result == publish_changelog(e.page1, e.page2)
    IN  IF ~telegraph_result.success
        THEN [success |-> FALSE, message_ids |-> <<>>, calls |-> <<>>,
              publishes |-> 1, pages |-> telegraph_result.pages,
              rendering |-> "ExternalFallback"]
        ELSE LET telegraph_url == telegraph_result.url
                 short_en == msgs.short_en[PageOf(telegraph_url)]
                 short_cn == msgs.short_cn[PageOf(telegraph_url)]
                 edit_results == EditShort(message_ids, short_en, short_cn, e)
                 success == \A k \in 1..Len(edit_results) : edit_results[k].ok
             IN  [success |-> success,
                  message_ids |-> IF success THEN message_ids ELSE <<>>,
                  calls |-> edit_results,
                  publishes |-> 1, pages |-> telegraph_result.pages,
                  rendering |-> "ExternalFallback"]

\* one tracked message and the combined message fits: edit it
EditCombined(message_ids, msgs, e) ==
    LET result == edit_telegram_message(message_ids[1], e.r1)
    IN  [success |-> result.success,
         message_ids |-> IF result.success THEN message_ids ELSE <<>>,
         calls |-> <<Call("edit", "combined", msgs.combined,
                          message_ids[1], e.r1, message_ids[1])>>,
         publishes |-> 0, pages |-> 0, rendering |-> "Combined"]

\* a variant of EditBoth that edits the Chinese message into the first
\* tracked message and the English one into the second (the code does not)
EditBothSwapped(message_ids, msgs, e) ==
    LET result1 == edit_telegram_message(message_ids[1], e.r1)
        result2 == edit_telegram_message(message_ids[2], e.r2)
    IN  [success |-> result1.success /\ result2.success,
         message_ids |-> message_ids,
         calls |-> <<Call("edit", "cn", msgs.cn,
                          message_ids[1], e.r1, message_ids[1]),
                     Call("edit", "en", msgs.en,
                          message_ids[2], e.r2, message_ids[2])>>,
         publishes |-> 0, pages |-> 0, rendering |-> "SplitBilingual"]

\* two tracked messages: the first is edited into the English message, the
\* second into the Chinese one
EditBoth(message_ids, msgs, e) ==
    LET result1 == edit_telegram_message(message_ids[1], e.r1)
        result2 == edit_telegram_message(message_ids[2], e.r2)
    IN  [success |-> result1.success /\ result2.success,
         message_ids |-> message_ids,
         calls |-> <<Call("edit", "en", msgs.en,
                          message_ids[1], e.r1, message_ids[1]),
                     Call("edit", "cn", msgs.cn,
                          message_ids[2], e.r2, message_ids[2])>>,
         publishes |-> 0, pages |-> 0, rendering |-> "SplitBilingual"]

\* a variant of EditBilingual that never splits a single tracked message
\* (the code splits it when the combined message no longer fits)
EditBilingualNoGrow(message_ids, msgs, e, id0) ==
    IF message_ids = <<>>
    THEN [success |-> FALSE, message_ids |-> <<>>, calls |-> <<>>,
          publishes |-> 0, pages |-> 0, rendering |-> None]
    ELSE IF msgs.is_single_oversized THEN EditFallback(message_ids, msgs, e)
    ELSE IF Len(message_ids) = 1 THEN EditCombined(message_ids, msgs, e)
    ELSE EditBoth(message_ids, msgs, e)

EditBilingual(message_ids, msgs, e, id0) ==
    IF message_ids = <<>>
    THEN [success |-> FALSE, message_ids |-> <<>>, calls |-> <<>>,
          publishes |-> 0, pages |-> 0, rendering |-> None]
    ELSE IF msgs.is_single_oversized THEN EditFallback(message_ids, msgs, e)
    ELSE IF Len(message_ids) = 1
         THEN IF ~msgs.is_oversized
              THEN EditCombined(message_ids, msgs, e)
              ELSE EditGrow(message_ids, msgs, e, id0)
    ELSE EditBoth(message_ids, msgs, e)

edit_bilingual_notification(message_ids, version, original, translated, title, version_url, e, id0) ==
    EditBilingual(message_ids,
                  Prepared(build_bilingual_messages(version, original, translated,
                                                    title, version_url)),
                  e, id0)

\* ------------------------------------------------------------------------
\* Inputs of the model
\* ------------------------------------------------------------------------
MaxVersion == 2        \* versions released upstream are 1..MaxVersion
MaxMsgId   == 3        \* message ids handed out by the Bot API are 1..MaxMsgId

\* the bodies upstream releases carry in the runs of the checkers
ReleaseBodies == {1, 2, 3}

\* the answers of the Bot API and of Telegraph during one dispatch; the
\* second createPage outcome matters only after CONTENT_TOO_BIG
Answers ==
    { e \in [r1 : BOOLEAN, r2 : BOOLEAN, page1 : PageOutcomes, page2 : {"ok", "ERROR"}] :
        e.page1 # "CONTENT_TOO_BIG" => e.page2 = "ok" }

\* hashlib.md5 of the content, "" for empty content: 0 stands for "", the
\* index of the body for the digest of a non-empty content (bodies differ
\* pairwise, so do their digests)
compute_body_hash(p, b) == IF Content(p, b) = <<>> THEN 0 ELSE b

\* the translations the service answers with in the runs of the checkers:
\* none, a long one, one too long for a message
RunTranslations == {1, 3, 4}

\* translate_changelog(latest_content): any answer of the service; the Codex
\* checker does not call it for empty content
TranslationsOf(p, b) ==
    IF p = "codex" /\ Content(p, b) = <<>> THEN {1} ELSE RunTranslations

\* the answers to enumerate for a dispatch of the messages m when tracked
\* messages are already on the channel (0 for a send): the answers to
\* requests that such a dispatch never makes are left at ok
AnswersFor(m, tracked) ==
    { e \in Answers :
        /\ ~m.is_single_oversized => e.page1 = "ok"
        /\ (tracked < 2 /\ (m.is_single_oversized \/ ~m.is_oversized)) => e.r2 }

\* ------------------------------------------------------------------------
\* State
\* ------------------------------------------------------------------------
VARIABLES
    product,       \* the product line whose checker and files are modelled
    prepared,      \* the messages of this product for every body and translation
    latest,        \* upstream: the latest (stable) version, NoVersion before the first
    body,          \* upstream: the body of the latest version
    versionFile,   \* output/<product>_latest_version.txt: NoVersion or a version
    messageState,  \* output/<product>_message_state.json: NoState or the record
    nextId,        \* the next message id the Bot API hands out
    run,           \* what the most recent run did
    clearedFor,    \* the version whose record the last check run removed after a failed edit
    lastOkHash,    \* digest of the content of the last dispatch that reported success
    lastKeptHash,  \* the same, of the last one that was not forced and was written down
    sentOk,        \* <<id, version>> of every send of a checker the Bot API accepted
    pushed,        \* output/<product>_pushed_versions.txt: the versions recorded
    entry          \* the process of main.py: its place in the loop over CHECKERS

vars == <<product, prepared, latest, body, versionFile, messageState, nextId, run,
          clearedFor, lastOkHash, lastKeptHash, sentOk, pushed, entry>>

\* the messages a run of this product builds for the body b and the
\* translation t
Messages(b, t) == prepared[b][t]

\* no message-state file
NoState == [exists |-> FALSE, version |-> NoVersion, message_ids |-> <<>>, body_hash |-> 0]

\* main.py is not running
NoEntry == [pc |-> "idle", i |-> 0, success_count |-> 0, ran |-> <<>>]

NoRun ==
    [kind |-> None, force |-> FALSE, path |-> None, exit |-> 0,
     latest |-> NoVersion, version |-> NoVersion, body |-> 0, translated |-> 0,
     dispatch |-> None, success |-> FALSE, ids |-> <<>>, calls |-> <<>>,
     publishes |-> 0, pages |-> 0, url |-> NoUrl, rendering |-> None, lens |-> <<>>,
     pre |-> [versionFile |-> NoVersion, messageState |-> NoState],
     io |-> TRUE, afterClear |-> FALSE, created |-> <<>>,
     queue |-> <<>>, fits |-> TRUE, attempts |-> 0, pushes |-> 0,
     input |-> <<>>, output |-> <<>>, target |-> NoVersion,
     api_errors |-> <<>>, found_stable |-> 0, error |-> None, delivered |-> <<>>]

Init ==
    /\ product \in Products
    /\ prepared = [b \in BodyIds |-> [t \in TranslationIds |->
                      Prepared(build_bilingual_messages(
                          VersionText, Original(product, b), Translations[t],
                          Title(product), VersionUrl(product)))]]
    /\ latest = NoVersion
    /\ body = 1
    /\ versionFile = NoVersion
    /\ messageState = NoState
    /\ nextId = 1
    /\ run = NoRun
    /\ clearedFor = NoVersion
    /\ lastOkHash = NoHash
    /\ lastKeptHash = NoHash
    /\ sentOk = {}
    /\ pushed = {}
    /\ entry = NoEntry

\* ------------------------------------------------------------------------
\* Upstream
\* ------------------------------------------------------------------------
\* a new version is published
Release(b) ==
    /\ run = NoRun
    /\ latest < MaxVersion
    /\ latest' = latest + 1
    /\ body' = b
    /\ UNCHANGED <<entry, pushed, product, prepared, versionFile, messageState, nextId, run, clearedFor,
                   lastOkHash, lastKeptHash, sentOk>>

\* the notes of the latest version are rewritten after the release
Amend(b) ==
    /\ run = NoRun
    /\ latest # NoVersion
    /\ b # body
    /\ body' = b
    /\ UNCHANGED <<entry, pushed, product, prepared, latest, versionFile, messageState, nextId, run, clearedFor,
                   lastOkHash, lastKeptHash, sentOk>>

\* ------------------------------------------------------------------------
\* Bookkeeping shared by the runs
\* ------------------------------------------------------------------------
\* a run is one process: it starts when no other runs (run = NoRun); what it
\* did stays in run until the process exits.  afterClear: the last check run
\* that saw a version removed the record after a failed edit, and this run
\* sees the same version
StartRun(kind, force, path, exit, seen) ==
    [NoRun EXCEPT !.kind = kind, !.force = force, !.path = path, !.exit = exit,
                  !.latest = seen,
                  !.pre = [versionFile |-> versionFile, messageState |-> messageState],
                  !.afterClear = (clearedFor # NoVersion /\ clearedFor = seen)]

\* where main() of a history pusher returns
PusherEnded == {"fetch_failed", "nothing_pending", "finished", "stopped"}

\* the process exits
ProcessExits ==
    /\ run # NoRun
    /\ run.kind = "push" => run.path \in PusherEnded
    /\ run' = NoRun
    /\ clearedFor' = IF /\ run.kind = "check" /\ run.path = "edit_failed"
                        /\ run.pre.messageState.exists /\ ~messageState.exists
                     THEN run.latest
                     ELSE IF run.kind = "check" /\ run.latest # NoVersion
                          THEN NoVersion
                          ELSE clearedFor
    /\ UNCHANGED <<pushed, product, prepared, latest, body, versionFile, messageState, nextId,
                   lastOkHash, lastKeptHash, sentOk>>

\* the exit of a process that was started on its own
Exit == ProcessExits /\ UNCHANGED entry

\* io: whether the file system carried out the write (or the removal) of the
\* message-state file this run asked for
WithDispatch(r, op, v, b, t, m, d, url, io) ==
    [r EXCEPT !.dispatch = op, !.io = io, !.version = v, !.body = b, !.translated = t,
              !.success = d.success, !.ids = d.message_ids, !.calls = d.calls,
              !.publishes = d.publishes, !.pages = d.pages, !.url = url,
              !.rendering = d.rendering,
              !.lens = <<m.combined_length, m.en_length, m.cn_length>>]

AcceptedSends(calls) ==
    {k \in 1..Len(calls) : calls[k].op = "send" /\ calls[k].ok}

\* the effect of a dispatch d for version v with content digest h on the
\* Bot API side and on the history; force: the run is a forced push, io: the
\* file system carries out the write of the message-state file
Dispatched(d, v, h, force, io) ==
    /\ nextId' = nextId + Cardinality(AcceptedSends(d.calls))
    /\ sentOk' = sentOk \cup {<<d.calls[k].id, v>> : k \in AcceptedSends(d.calls)}
    /\ lastOkHash' = IF d.success THEN h ELSE lastOkHash
    /\ lastKeptHash' = IF d.success /\ ~force /\ io THEN h ELSE lastKeptHash

NothingDispatched == UNCHANGED <<nextId, sentOk, lastOkHash, lastKeptHash>>

RoomForDispatch == run = NoRun /\ nextId + 1 <= MaxMsgId

\* an edit sends at most one new message, and only when one message is
\* tracked: the ids it may need are within the bound
RoomForEdit ==
    /\ run = NoRun
    /\ nextId + (IF Len(messageState.message_ids) = 1 THEN 1 ELSE 0) <= MaxMsgId + 1

\* a run that sends nothing starts when no other process runs
Idle == run = NoRun /\ UNCHANGED clearedFor

\* variants of StateRecord: one writes the digest of the empty content, one
\* the version read from the version file (the code does neither)
StateRecordEmptyHash(v, ids, h) ==
    [exists |-> TRUE, version |-> v, message_ids |-> ids, body_hash |-> 0]

StateRecordSavedVersion(v, ids, h) ==
    [exists |-> TRUE, version |-> versionFile, message_ids |-> ids, body_hash |-> h]

\* save_message_state(version, message_ids, body_hash): the record written
StateRecord(v, ids, h) ==
    [exists |-> TRUE, version |-> v, message_ids |-> ids, body_hash |-> h]

\* a variant of NewVersion that also takes a recorded version without a
\* message-state record for a new one (the code does not behave so)
NewVersionOrUntracked ==
    /\ versionFile # NoVersion
    /\ versionFile # latest \/ ~messageState.exists

\* a variant of NewVersion that takes every recorded version for an older
\* one (the code compares it with the latest)
AnyRecordedVersion == versionFile # NoVersion

\* saved_version == latest_version, and the else branch: a new version
SameVersion == versionFile = latest

NewVersion == versionFile \notin {NoVersion, latest}

\* a variant of NeedsEdit that does not compare the digests (the code does)
NeedsEditAnyHash(h) ==
    /\ messageState.exists
    /\ messageState.version = latest
    /\ messageState.message_ids # <<>>

\* whether the unchanged-version branch edits the tracked notification
NeedsEdit(h) ==
    /\ messageState.exists
    /\ messageState.version = latest
    /\ messageState.body_hash # h
    /\ messageState.message_ids # <<>>

\* ------------------------------------------------------------------------
\* Claude Code checker: main().  Each action is one complete run along one
\* path of main(); the answers of the outside world are its parameters.
\* ------------------------------------------------------------------------
BadVersion == -1       \* a --target-version that is not of the form d.d.d
Targets == {NoVersion, BadVersion} \cup (1..MaxVersion)

\* --target-version without --force, or a malformed --target-version
ClaudeRejectArgs(force, target) ==
    /\ product = "claude_code"
    /\ Idle
    /\ target # NoVersion
    /\ ~force \/ target = BadVersion
    /\ run' = [StartRun(IF force THEN "force" ELSE "check", force, "bad_args", 1,
                         NoVersion) EXCEPT !.target = target]
    /\ UNCHANGED <<entry, pushed, product, prepared, latest, body, versionFile, messageState>>
    /\ NothingDispatched

\* fetch_changelog() returns None, or no version heading is found
ClaudeNoChangelog(force, target, fetched) ==
    /\ product = "claude_code"
    /\ Idle
    /\ target = NoVersion \/ (force /\ target # BadVersion)
    /\ ~fetched \/ latest = NoVersion
    /\ run' = [StartRun(IF force THEN "force" ELSE "check", force,
                         IF fetched THEN "no_version" ELSE "fetch_failed", 1, NoVersion)
                  EXCEPT !.target = target]
    /\ UNCHANGED <<entry, pushed, product, prepared, latest, body, versionFile, messageState>>
    /\ NothingDispatched

\* --force with a --target-version that CHANGELOG.md does not contain
ClaudeForceMissing(target) ==
    /\ product = "claude_code"
    /\ Idle
    /\ latest # NoVersion
    /\ target \in 1..MaxVersion /\ target > latest
    /\ run' = [StartRun("force", TRUE, "target_missing", 1, latest)
                  EXCEPT !.target = target]
    /\ UNCHANGED <<entry, pushed, product, prepared, latest, body, versionFile, messageState>>
    /\ NothingDispatched

\* a variant of the forced push that records the pushed version as the
\* last-seen one (the code leaves the records alone)
ClaudeForceSaves(target, b, t) ==
    /\ product = "claude_code"
    /\ RoomForDispatch
    /\ latest # NoVersion
    /\ target = NoVersion \/ target \in 1..latest
    /\ target \in {NoVersion, latest} => b = body
    /\ UNCHANGED clearedFor
    /\ \E e \in AnswersFor(Messages(b, t), 0) :
       LET push_version == IF target # NoVersion THEN target ELSE latest
           m == Messages(b, t)
           notify_result == SendBilingual(m, e, nextId)
       IN  /\ run' = WithDispatch(
                       [StartRun("force", TRUE, "forced",
                                 IF notify_result.success THEN 0 ELSE 1, latest)
                          EXCEPT !.target = target],
                       "send", push_version, b, t, m, notify_result,
                       notify_result.telegraph_url, TRUE)
           /\ versionFile' = IF notify_result.success THEN push_version ELSE versionFile
           /\ Dispatched(notify_result, push_version, compute_body_hash(product, b),
                         TRUE, TRUE)
    /\ UNCHANGED <<entry, pushed, product, prepared, latest, body, messageState>>

\* --force: push without comparing and without touching the records; b is
\* the section of the pushed version (that of the latest one is body)
ClaudeForce(target, b, t) ==
    /\ product = "claude_code"
    /\ RoomForDispatch
    /\ latest # NoVersion
    /\ target = NoVersion \/ target \in 1..latest
    /\ target \in {NoVersion, latest} => b = body
    /\ UNCHANGED clearedFor
    /\ \E e \in AnswersFor(Messages(b, t), 0) :
       LET push_version == IF target # NoVersion THEN target ELSE latest
           m == Messages(b, t)
           notify_result == SendBilingual(m, e, nextId)
       IN  /\ run' = WithDispatch(
                       [StartRun("force", TRUE, "forced",
                                 IF notify_result.success THEN 0 ELSE 1, latest)
                          EXCEPT !.target = target],
                       "send", push_version, b, t, m, notify_result,
                       notify_result.telegraph_url, TRUE)
           /\ Dispatched(notify_result, push_version, compute_body_hash(product, b),
                         TRUE, TRUE)
    /\ UNCHANGED <<entry, pushed, product, prepared, latest, body, versionFile, messageState>>

\* a variant of the first run that also writes a message-state record
\* without ids (the code writes none)
ClaudeFirstRunTracks(saveOk) ==
    /\ product = "claude_code"
    /\ Idle
    /\ latest # NoVersion
    /\ versionFile = NoVersion
    /\ run' = StartRun("check", FALSE, "first_run", 0, latest)
    /\ versionFile' = IF saveOk THEN latest ELSE versionFile
    /\ messageState' = StateRecord(latest, <<>>, compute_body_hash(product, body))
    /\ UNCHANGED <<entry, pushed, product, prepared, latest, body>>
    /\ NothingDispatched

\* first run: the version is recorded, nothing is sent; saveOk is whether
\* save_version can write the file (its result is not looked at)
ClaudeFirstRun(saveOk) ==
    /\ product = "claude_code"
    /\ Idle
    /\ latest # NoVersion
    /\ versionFile = NoVersion
    /\ run' = StartRun("check", FALSE, "first_run", 0, latest)
    /\ versionFile' = IF saveOk THEN latest ELSE versionFile
    /\ UNCHANGED <<entry, pushed, product, prepared, latest, body, messageState>>
    /\ NothingDispatched

\* same version, nothing to edit
ClaudeUpToDate ==
    /\ product = "claude_code"
    /\ Idle
    /\ latest # NoVersion
    /\ SameVersion
    /\ ~NeedsEdit(compute_body_hash(product, body))
    /\ run' = StartRun("check", FALSE, "up_to_date", 0, latest)
    /\ UNCHANGED <<entry, pushed, product, prepared, latest, body, versionFile, messageState>>
    /\ NothingDispatched

\* same version, changed content: edit the tracked notification; ioOk is
\* whether the write (or the removal) of the message-state file succeeds
ClaudeEdit(t, ioOk) ==
    /\ product = "claude_code"
    /\ RoomForEdit
    /\ latest # NoVersion
    /\ SameVersion
    /\ NeedsEdit(compute_body_hash(product, body))
    /\ UNCHANGED clearedFor
    /\ \E e \in AnswersFor(Messages(body, t), Len(messageState.message_ids)) :
       LET current_body_hash == compute_body_hash(product, body)
           m == Messages(body, t)
           edit_result == EditBilingual(messageState.message_ids, m, e, nextId)
       IN  /\ run' = WithDispatch(
                       StartRun("check", FALSE,
                                IF edit_result.success THEN "edited" ELSE "edit_failed",
                                IF edit_result.success THEN 0 ELSE 1, latest),
                       "edit", latest, body, t, m, edit_result, NoUrl, ioOk)
           /\ messageState' =
                IF ~ioOk THEN messageState
                ELSE IF edit_result.success
                     THEN StateRecord(latest, edit_result.message_ids, current_body_hash)
                     ELSE NoState
           /\ Dispatched(edit_result, latest, current_body_hash, FALSE, ioOk)
    /\ UNCHANGED <<entry, pushed, product, prepared, latest, body, versionFile>>

\* a variant that goes on to translate and send after save_version()
\* failed (the code returns 1 there)
ClaudeNewSaveFailedSends ==
    /\ product = "claude_code"
    /\ RoomForDispatch
    /\ latest # NoVersion
    /\ NewVersion
    /\ UNCHANGED clearedFor
    /\ \E t \in RunTranslations : \E e \in AnswersFor(Messages(body, t), 0) :
       LET m == Messages(body, t)
           notify_result == SendBilingual(m, e, nextId)
           body_hash == compute_body_hash(product, body)
       IN  /\ run' = WithDispatch(
                       StartRun("check", FALSE,
                                IF notify_result.success THEN "notified" ELSE "send_failed",
                                IF notify_result.success THEN 0 ELSE 1, latest),
                       "send", latest, body, t, m, notify_result,
                       notify_result.telegraph_url, TRUE)
           /\ messageState' =
                IF notify_result.success /\ notify_result.message_ids # <<>>
                THEN StateRecord(latest, notify_result.message_ids, body_hash)
                ELSE messageState
           /\ Dispatched(notify_result, latest, body_hash, FALSE, TRUE)
    /\ UNCHANGED <<entry, pushed, product, prepared, latest, body, versionFile>>

\* new version, but save_version() fails: stop before sending
ClaudeNewSaveFailed ==
    /\ product = "claude_code"
    /\ Idle
    /\ latest # NoVersion
    /\ NewVersion
    /\ run' = StartRun("check", FALSE, "version_save_failed", 1, latest)
    /\ UNCHANGED <<entry, pushed, product, prepared, latest, body, versionFile, messageState>>
    /\ NothingDispatched

\* new version: record it, notify, then save the message state
ClaudeNew(t, stateOk) ==
    /\ product = "claude_code"
    /\ RoomForDispatch
    /\ latest # NoVersion
    /\ NewVersion
    /\ UNCHANGED clearedFor
    /\ versionFile' = latest
    /\ \E e \in AnswersFor(Messages(body, t), 0) :
       LET m == Messages(body, t)
           notify_result == SendBilingual(m, e, nextId)
           body_hash == compute_body_hash(product, body)
       IN  /\ run' = WithDispatch(
                       StartRun("check", FALSE,
                                IF notify_result.success THEN "notified" ELSE "send_failed",
                                IF notify_result.success THEN 0 ELSE 1, latest),
                       "send", latest, body, t, m, notify_result,
                       notify_result.telegraph_url, stateOk)
           /\ messageState' =
                IF notify_result.success /\ notify_result.message_ids # <<>> /\ stateOk
                THEN StateRecord(latest, notify_result.message_ids, body_hash)
                ELSE messageState
           /\ Dispatched(notify_result, latest, body_hash, FALSE, stateOk)
    /\ UNCHANGED <<entry, pushed, product, prepared, latest, body>>

ClaudeMain ==
    \/ \E force \in BOOLEAN, target \in Targets : ClaudeRejectArgs(force, target)
    \/ \E force \in BOOLEAN, target \in Targets, fetched \in BOOLEAN :
           ClaudeNoChangelog(force, target, fetched)
    \/ \E target \in Targets : ClaudeForceMissing(target)
    \/ \E target \in Targets, b \in ReleaseBodies, t \in RunTranslations :
           ClaudeForce(target, b, t)
    \/ \E saveOk \in BOOLEAN : ClaudeFirstRun(saveOk)
    \/ ClaudeUpToDate
    \/ \E t \in RunTranslations, ioOk \in BOOLEAN : ClaudeEdit(t, ioOk)
    \/ ClaudeNewSaveFailed
    \/ \E t \in RunTranslations, stateOk \in BOOLEAN : ClaudeNew(t, stateOk)

\* ------------------------------------------------------------------------
\* Codex checker: main()
\* ------------------------------------------------------------------------
\* the feed cannot be fetched, or parse_latest_stable_release reports an error
CodexFeedFailed(fetched) ==
    /\ product = "codex"
    /\ Idle
    /\ run' = StartRun("check", FALSE,
                       IF fetched THEN "parse_error" ELSE "fetch_failed", 1, NoVersion)
    /\ UNCHANGED <<entry, pushed, product, prepared, latest, body, versionFile, messageState>>
    /\ NothingDispatched

\* the feed holds no stable release
CodexNoStable ==
    /\ product = "codex"
    /\ Idle
    /\ latest = NoVersion
    /\ run' = StartRun("check", FALSE, "no_stable", 0, NoVersion)
    /\ UNCHANGED <<entry, pushed, product, prepared, latest, body, versionFile, messageState>>
    /\ NothingDispatched

CodexFirstRun(saveOk) ==
    /\ product = "codex"
    /\ Idle
    /\ latest # NoVersion
    /\ versionFile = NoVersion
    /\ run' = StartRun("check", FALSE, "first_run", 0, latest)
    /\ versionFile' = IF saveOk THEN latest ELSE versionFile
    /\ UNCHANGED <<entry, pushed, product, prepared, latest, body, messageState>>
    /\ NothingDispatched

\* resolve_saved_version_to_tag answers auth_error
CodexAuthError ==
    /\ product = "codex"
    /\ Idle
    /\ latest # NoVersion
    /\ versionFile # NoVersion
    /\ run' = StartRun("check", FALSE, "auth_error", 1, latest)
    /\ UNCHANGED <<entry, pushed, product, prepared, latest, body, versionFile, messageState>>
    /\ NothingDispatched

CodexUpToDate ==
    /\ product = "codex"
    /\ Idle
    /\ latest # NoVersion
    /\ SameVersion
    /\ ~NeedsEdit(compute_body_hash(product, body))
    /\ run' = StartRun("check", FALSE, "up_to_date", 0, latest)
    /\ UNCHANGED <<entry, pushed, product, prepared, latest, body, versionFile, messageState>>
    /\ NothingDispatched

\* same version, changed release notes: edit; a failed edit is only reported
CodexEdit(t, ioOk) ==
    /\ product = "codex"
    /\ RoomForEdit
    /\ latest # NoVersion
    /\ SameVersion
    /\ NeedsEdit(compute_body_hash(product, body))
    /\ t \in TranslationsOf(product, body)
    /\ UNCHANGED clearedFor
    /\ \E e \in AnswersFor(Messages(body, t), Len(messageState.message_ids)) :
       LET current_body_hash == compute_body_hash(product, body)
           m == Messages(body, t)
           edit_result == EditBilingual(messageState.message_ids, m, e, nextId)
       IN  /\ run' = WithDispatch(
                       StartRun("check", FALSE,
                                IF edit_result.success THEN "edited" ELSE "edit_failed",
                                0, latest),
                       "edit", latest, body, t, m, edit_result, NoUrl, ioOk)
           /\ messageState' =
                IF edit_result.success /\ ioOk
                THEN StateRecord(latest, edit_result.message_ids, current_body_hash)
                ELSE messageState
           /\ Dispatched(edit_result, latest, current_body_hash, FALSE, ioOk)
    /\ UNCHANGED <<entry, pushed, product, prepared, latest, body, versionFile>>

\* new version, but the debug file cannot be written: open() raises and
\* the run dies before the notification is sent
CodexNewCrash(saveOk) ==
    /\ product = "codex"
    /\ Idle
    /\ latest # NoVersion
    /\ NewVersion
    /\ run' = StartRun("check", FALSE, "debug_write_failed", 1, latest)
    /\ versionFile' = IF saveOk THEN latest ELSE versionFile
    /\ UNCHANGED <<entry, pushed, product, prepared, latest, body, messageState>>
    /\ NothingDispatched

\* new version: record it (the result of save_version is not looked at),
\* notify, save the message state; the exit status is 0 in any case
CodexNew(saveOk, t, stateOk) ==
    /\ product = "codex"
    /\ RoomForDispatch
    /\ latest # NoVersion
    /\ NewVersion
    /\ t \in TranslationsOf(product, body)
    /\ UNCHANGED clearedFor
    /\ versionFile' = IF saveOk THEN latest ELSE versionFile
    /\ \E e \in AnswersFor(Messages(body, t), 0) :
       LET m == Messages(body, t)
           notify_result == SendBilingual(m, e, nextId)
           body_hash == compute_body_hash(product, body)
       IN  /\ run' = WithDispatch(
                       StartRun("check", FALSE,
                                IF notify_result.success THEN "notified" ELSE "send_failed",
                                0, latest),
                       "send", latest, body, t, m, notify_result,
                       notify_result.telegraph_url, stateOk)
           /\ messageState' =
                IF notify_result.success /\ notify_result.message_ids # <<>> /\ stateOk
                THEN StateRecord(latest, notify_result.message_ids, body_hash)
                ELSE messageState
           /\ Dispatched(notify_result, latest, body_hash, FALSE, stateOk)
    /\ UNCHANGED <<entry, pushed, product, prepared, latest, body>>

CodexMain ==
    \/ \E fetched \in BOOLEAN : CodexFeedFailed(fetched)
    \/ CodexNoStable
    \/ \E saveOk \in BOOLEAN : CodexFirstRun(saveOk)
    \/ CodexAuthError
    \/ CodexUpToDate
    \/ \E t \in RunTranslations, ioOk \in BOOLEAN : CodexEdit(t, ioOk)
    \/ \E saveOk \in BOOLEAN : CodexNewCrash(saveOk)
    \/ \E saveOk \in BOOLEAN, t \in RunTranslations, stateOk \in BOOLEAN :
           CodexNew(saveOk, t, stateOk)

\* ------------------------------------------------------------------------
\* Codex checker: parse_latest_stable_release over the entries of the feed
\* ------------------------------------------------------------------------
MaxEntries == 2

\* what the loop makes of an entry: skipped (no title, an unstable title,
\* or verified as tag_only, draft or prerelease), stable, recoverable
\* (rate_limited, server_error, network_error), fatal (auth_error,
\* json_error, api_error_<code>)
EntryStatuses == {"skipped", "stable", "recoverable", "fatal"}

\* the feeds: one that is not well-formed XML, and the well-formed ones
\* with up to MaxEntries entries
Feeds ==
    {[xml_ok |-> FALSE, entries |-> <<>>]}
    \cup {[xml_ok |-> TRUE, entries |-> s] :
            s \in UNION {[1..n -> EntryStatuses] : n \in 0..MaxEntries}}

\* the loop over the entries from the k-th on; api_errors holds the places
\* of the entries whose verification ended in a recoverable error
RECURSIVE ParseFrom(_, _, _)
ParseFrom(entries, k, api_errors) ==
    IF k > Len(entries)
    THEN [fatal |-> FALSE, api_errors |-> api_errors, found_stable |-> 0]
    ELSE IF entries[k] = "fatal"
         THEN [fatal |-> TRUE, api_errors |-> api_errors, found_stable |-> 0]
    ELSE IF entries[k] = "recoverable"
         THEN ParseFrom(entries, k + 1, Append(api_errors, k))
    ELSE IF entries[k] = "stable"
         THEN [fatal |-> FALSE, api_errors |-> api_errors, found_stable |-> k]
    ELSE ParseFrom(entries, k + 1, api_errors)

\* a variant that returns the stable release it found whatever errors were
\* met on the way (the code reports the errors instead)
ParseReturnsFound(feed) ==
    LET r == ParseFrom(feed.entries, 1, <<>>)
    IN  IF ~feed.xml_ok
        THEN [tag |-> 0, error |-> "xml_parse_error", api_errors |-> <<>>, found_stable |-> 0]
        ELSE IF r.fatal
             THEN [tag |-> 0, error |-> "fatal_error", api_errors |-> r.api_errors,
                   found_stable |-> 0]
        ELSE [tag |-> r.found_stable, error |-> None, api_errors |-> r.api_errors,
              found_stable |-> r.found_stable]

\* parse_latest_stable_release: tag is the place of the release returned, 0
\* for none
parse_latest_stable_release(feed) ==
    LET r == ParseFrom(feed.entries, 1, <<>>)
    IN  IF ~feed.xml_ok
        THEN [tag |-> 0, error |-> "xml_parse_error", api_errors |-> <<>>, found_stable |-> 0]
        ELSE IF r.fatal
             THEN [tag |-> 0, error |-> "fatal_error", api_errors |-> r.api_errors,
                   found_stable |-> 0]
        ELSE IF r.api_errors # <<>>
             THEN [tag |-> 0, error |-> "api_errors", api_errors |-> r.api_errors,
                   found_stable |-> r.found_stable]
        ELSE [tag |-> r.found_stable, error |-> None, api_errors |-> <<>>,
              found_stable |-> r.found_stable]

\* what parse_latest_stable_release can return for the feeds
ParseResults == {parse_latest_stable_release(feed) : feed \in Feeds}

\* parse_latest_stable_release reported an error: main returns 1
CodexFeedError(r) ==
    /\ product = "codex"
    /\ Idle
    /\ r.error # None
    /\ run' = [StartRun("check", FALSE, "parse_error", 1, NoVersion)
                  EXCEPT !.error = r.error, !.api_errors = r.api_errors,
                         !.found_stable = r.found_stable]
    /\ UNCHANGED <<entry, pushed, product, prepared, latest, body, versionFile, messageState>>
    /\ NothingDispatched

\* main after parse_latest_stable_release returned r: it stops at an
\* error, ends with 0 when there is no stable release, and goes on with the
\* release returned otherwise
CodexParsed(r) ==
    \/ CodexFeedError(r)
    \/ /\ r.error = None
       /\ r.tag = 0
       /\ CodexNoStable
    \/ /\ r.error = None
       /\ r.tag # 0
       /\ \/ \E saveOk \in BOOLEAN : CodexFirstRun(saveOk)
          \/ CodexAuthError
          \/ CodexUpToDate
          \/ \E t \in RunTranslations, ioOk \in BOOLEAN : CodexEdit(t, ioOk)
          \/ \E saveOk \in BOOLEAN : CodexNewCrash(saveOk)
          \/ \E saveOk \in BOOLEAN, t \in RunTranslations, stateOk \in BOOLEAN :
                 CodexNew(saveOk, t, stateOk)

NextFeed ==
    \/ \E b \in ReleaseBodies : Release(b)
    \/ \E b \in ReleaseBodies : Amend(b)
    \/ CodexFeedFailed(FALSE)
    \/ \E r \in ParseResults : CodexParsed(r)
    \/ Exit

SpecFeed == Init /\ [][NextFeed]_vars

Next ==
    \/ \E b \in ReleaseBodies : Release(b)
    \/ \E b \in ReleaseBodies : Amend(b)
    \/ ClaudeMain
    \/ CodexMain
    \/ Exit

Spec == Init /\ [][Next]_vars

\* ------------------------------------------------------------------------
\* The dispatch policy on its own: send_bilingual_notification applied to
\* every body, translation and set of answers
\* ------------------------------------------------------------------------
Notify(b, t) ==
    /\ Idle
    /\ \E e \in Answers :
       LET m == Messages(b, t)
           result == SendBilingual(m, e, nextId)
       IN  run' = WithDispatch(StartRun("dispatch", FALSE, "dispatch", 0, NoVersion),
                               "send", 1, b, t, m, result, result.telegraph_url, TRUE)
    /\ UNCHANGED <<entry, pushed, product, prepared, latest, body, versionFile, messageState>>
    /\ NothingDispatched

NextDispatch ==
    \/ \E b \in BodyIds, t \in TranslationIds : Notify(b, t)
    \/ Exit

SpecDispatch == Init /\ [][NextDispatch]_vars

\* ------------------------------------------------------------------------
\* publish_changelog on its own, applied to release notes with and without
\* a Changelog section and to every pair of answers of Telegraph
\* ------------------------------------------------------------------------
\* release notes and translations handed to publish_changelog
ChangelogTexts ==
    << <<R("a", 100)>>,
       <<R("a", 100), R("nl", 2), R("#", 2), R(" ", 1), R("Changelog", 1),
         R("nl", 1), R("a", 3000)>>,
       <<R("*", 1), R("*", 1), R("Changelog", 1), R("*", 1), R("*", 1),
         R("nl", 1), R("a", 3000)>>,
       <<R("a", 100), R("nl", 1), R("Changelog", 1)>>,
       <<R("a", 100), R(" ", 1), R("Changelog", 1), R("nl", 2), R("a", 100),
         R("nl", 1), R("Changelog", 1), R(" ", 2), R("nl", 1), R("a", 3000)>> >>

ChangelogTranslations ==
    << <<>>,
       <<R("a", 100)>>,
       <<R("a", 50), R("nl", 1), R("#", 3), R("Changelog", 1), R("nl", 2),
         R("a", 2000)>> >>

\* created: the create_page calls made, each with the content passed and
\* the answer of Telegraph
Publish(o, t, page1, page2) ==
    /\ Idle
    /\ LET result   == publish_changelog(page1, page2)
           contents == PublishContents(ChangelogTexts[o], ChangelogTranslations[t])
           answers  == <<page1, page2>>
       IN  run' = [StartRun("publish", FALSE, "publish", 0, NoVersion) EXCEPT
                      !.body = o, !.translated = t,
                      !.success = result.success, !.url = result.url,
                      !.publishes = 1, !.pages = result.pages,
                      !.created = [k \in 1..result.pages |->
                                      [content |-> contents[k], answer |-> answers[k]]]]
    /\ UNCHANGED <<entry, pushed, product, prepared, latest, body, versionFile, messageState>>
    /\ NothingDispatched

NextPublish ==
    \/ \E o \in DOMAIN ChangelogTexts, t \in DOMAIN ChangelogTranslations,
          page1 \in PageOutcomes, page2 \in PageOutcomes : Publish(o, t, page1, page2)
    \/ Exit

SpecPublish == Init /\ [][NextPublish]_vars

\* ------------------------------------------------------------------------
\* History pushers: main() of claude_code/pusher.py and of
\* codex/codex_history_push.py.  run holds the process: queue are the
\* pending versions still to push, the first being the one in hand,
\* attempts the send_bilingual_notification calls made for it, success the
\* result of the last of them, delivered the messages of it that the Bot API
\* accepted so far, pushes is success_count.
\* ------------------------------------------------------------------------
MAX_RETRY == 3

\* the versions upstream from v on, oldest first, that the file of pushed
\* versions does not hold
RECURSIVE Pending(_)
Pending(v) ==
    IF v > latest THEN <<>>
    ELSE (IF v \in pushed THEN <<>> ELSE <<v>>) \o Pending(v + 1)

\* a variant of LoopContinues without the break (the code has it)
LoopIgnoresSuccess(result, retry) == retry < MAX_RETRY

\* for retry in range(MAX_RETRY): ... if result: break -- whether another
\* iteration follows the one that was the retry-th and returned result
LoopContinues(result, retry) == ~result /\ retry < MAX_RETRY

\* fetch, read the pushed versions, keep the pending ones, at most max_count
\* of them unless --all
PusherStart(fetched, max_count, push_all) ==
    /\ Idle
    /\ LET pending_versions == IF fetched THEN Pending(1) ELSE <<>>
           limited == IF push_all \/ Len(pending_versions) <= max_count
                      THEN pending_versions
                      ELSE SubSeq(pending_versions, 1, max_count)
       IN  run' = IF pending_versions = <<>>
                  THEN StartRun("push", FALSE,
                                IF fetched THEN "nothing_pending" ELSE "fetch_failed",
                                0, latest)
                  ELSE [StartRun("push", FALSE, "translating", 0, latest)
                           EXCEPT !.queue = limited]
    /\ UNCHANGED <<entry, pushed, product, prepared, latest, body, versionFile, messageState>>
    /\ NothingDispatched

InPusher(path) == run.kind = "push" /\ run.path = path

\* the run after the next version is taken in hand: result = False
NextVersion(b, t, fits) ==
    [run EXCEPT !.version = Head(run.queue), !.body = b, !.translated = t,
                !.fits = fits, !.attempts = 0, !.success = FALSE,
                !.delivered = <<>>, !.path = "sending"]

\* Claude Code: the section b of the version is translated (t)
ClaudePusherTranslate(b, t) ==
    /\ product = "claude_code"
    /\ InPusher("translating")
    /\ Head(run.queue) = latest => b = body
    /\ run' = NextVersion(b, t, TRUE)
    /\ UNCHANGED <<entry, pushed, product, prepared, latest, body, versionFile, messageState,
                   clearedFor>>
    /\ NothingDispatched

\* Codex: the release body is translated; fits says whether the combined
\* message that notify/telegram.py builds from both is within the limit
CodexPusherTranslate(fits) ==
    /\ product = "codex"
    /\ InPusher("translating")
    /\ run' = NextVersion(0, 0, fits)
    /\ UNCHANGED <<entry, pushed, product, prepared, latest, body, versionFile, messageState,
                   clearedFor>>
    /\ NothingDispatched

\* the run after an attempt that returned result
AfterAttempt(result) ==
    [run EXCEPT !.attempts = @ + 1, !.success = result,
                !.path = IF LoopContinues(result, run.attempts + 1) THEN "sending"
                         ELSE IF result THEN "sent"
                         ELSE "exhausted"]

\* the messages of the calls that the Bot API accepted, in the order sent
RECURSIVE Accepted(_)
Accepted(calls) ==
    IF calls = <<>> THEN <<>>
    ELSE (IF Head(calls).op = "send" /\ Head(calls).ok THEN <<Head(calls).msg>> ELSE <<>>)
         \o Accepted(Tail(calls))

\* what the sends of an attempt leave on the side of the Bot API; the ids it
\* hands out stay within the bound (the pushers drop the ids, and the
\* histories kept for the checkers do not record their sends)
Attempted(calls) ==
    /\ nextId + Cardinality(AcceptedSends(calls)) <= MaxMsgId + 1
    /\ nextId' = nextId + Cardinality(AcceptedSends(calls))
    /\ UNCHANGED <<sentOk, lastOkHash, lastKeptHash>>

\* Claude Code: one iteration of the retry loop
ClaudePusherAttempt ==
    /\ product = "claude_code"
    /\ InPusher("sending")
    /\ \E e \in AnswersFor(Messages(run.body, run.translated), 0) :
       LET result == SendBilingual(Messages(run.body, run.translated), e, nextId)
       IN  /\ Attempted(result.calls)
           /\ run' = [AfterAttempt(result.success)
                         EXCEPT !.delivered = @ \o Accepted(result.calls)]
    /\ UNCHANGED <<entry, pushed, product, prepared, latest, body, versionFile, messageState,
                   clearedFor>>

\* send_bilingual_notification of notify/telegram.py returns a bool: that of
\* the one send when the combined message fits, result1 and result2 of the
\* two sends when it does not
LegacySendBilingual(fits, e, id0) ==
    LET id1 == IF e.r1 THEN id0 + 1 ELSE id0
        sent(msg, ok, id) ==
            [op |-> "send", msg |-> msg, ok |-> ok, id |-> IF ok THEN id ELSE NoId]
    IN  IF fits
        THEN [success |-> e.r1, calls |-> <<sent("combined", e.r1, id0)>>]
        ELSE [success |-> e.r1 /\ e.r2,
              calls |-> <<sent("en", e.r1, id0), sent("cn", e.r2, id1)>>]

\* Codex: one iteration of the retry loop
CodexPusherAttempt ==
    /\ product = "codex"
    /\ InPusher("sending")
    /\ \E e \in {a \in Answers : a.page1 = "ok" /\ (run.fits => a.r2)} :
       LET result == LegacySendBilingual(run.fits, e, nextId)
       IN  /\ Attempted(result.calls)
           /\ run' = [AfterAttempt(result.success)
                         EXCEPT !.delivered = @ \o Accepted(result.calls)]
    /\ UNCHANGED <<entry, pushed, product, prepared, latest, body, versionFile, messageState,
                   clearedFor>>

\* after the loop, result is true: append_pushed_version (appendOk is
\* whether the file system carries the write out), then the next version
PusherRecord(appendOk) ==
    /\ InPusher("sent")
    /\ pushed' = IF appendOk THEN pushed \cup {run.version} ELSE pushed
    /\ run' = [run EXCEPT !.pushes = @ + 1, !.queue = Tail(@),
                          !.path = IF Tail(run.queue) = <<>> THEN "finished"
                                   ELSE "translating"]
    /\ UNCHANGED <<entry, product, prepared, latest, body, versionFile, messageState,
                   clearedFor>>
    /\ NothingDispatched

\* a variant that goes on to the next pending version after the retries of
\* one are used up (the code breaks out of the loop)
PusherSkipsFailed ==
    /\ InPusher("exhausted")
    /\ run' = [run EXCEPT !.queue = Tail(@),
                          !.path = IF Tail(run.queue) = <<>> THEN "finished"
                                   ELSE "translating"]
    /\ UNCHANGED <<entry, pushed, product, prepared, latest, body, versionFile, messageState,
                   clearedFor>>
    /\ NothingDispatched

\* after the loop, result is false: the pusher stops
PusherGiveUp ==
    /\ InPusher("exhausted")
    /\ run' = [run EXCEPT !.path = "stopped"]
    /\ UNCHANGED <<entry, pushed, product, prepared, latest, body, versionFile, messageState,
                   clearedFor>>
    /\ NothingDispatched

\* the steps of a pusher that is running
PusherStep ==
    \/ \E b \in ReleaseBodies, t \in RunTranslations : ClaudePusherTranslate(b, t)
    \/ \E fits \in BOOLEAN : CodexPusherTranslate(fits)
    \/ ClaudePusherAttempt
    \/ CodexPusherAttempt
    \/ \E appendOk \in BOOLEAN : PusherRecord(appendOk)
    \/ PusherGiveUp

NextPusher ==
    \/ \E b \in ReleaseBodies : Release(b)
    \/ \E fetched \in BOOLEAN, max_count \in 1..MaxVersion, push_all \in BOOLEAN :
           PusherStart(fetched, max_count, push_all)
    \/ PusherStep
    \/ Exit

\* a pusher that is running does not stop between two statements
SpecPusher == Init /\ [][NextPusher]_vars /\ WF_vars(PusherStep)

\* ------------------------------------------------------------------------
\* process_message_for_markdown_v2 on its own, applied to texts that hold a
\* link [a](b) and a code span `c`, in either order, with and without bold
\* stars around them
\* ------------------------------------------------------------------------
MdLinkTexts ==
    << <<R("a", 3)>>,
       <<R("a", 1), R(".", 1), R("a", 1)>>,
       <<R("_", 2)>> >>

MdUrl == <<R("url", 7)>>

MdCodes ==
    << <<R("a", 2)>>,
       <<R(".", 1), R("a", 1)>>,
       <<R("[", 1)>>,
       <<R("a", 1), R("]", 1)>> >>

MdSeparators ==
    << <<R(" ", 1)>>,
       <<R("nl", 1)>>,
       <<R(".", 1), R(" ", 1)>>,
       <<R("a", 1), R("-", 1), R("a", 1)>> >>

MdOrders == {"link_code", "code_link"}

\* the link [a](b) and the code span `c` as they stand in the input
MdLink(a, b) == <<R("[", 1)>> \o a \o <<R("]", 1), R("(", 1)>> \o b \o <<R(")", 1)>>
MdCode(c) == <<R("bt", 1)>> \o c \o <<R("bt", 1)>>

MdText(in) ==
    LET link  == MdLink(MdLinkTexts[in.a], MdUrl)
        code  == MdCode(MdCodes[in.c])
        sep   == MdSeparators[in.sep]
        inner == IF in.order = "link_code" THEN link \o sep \o code
                 ELSE code \o sep \o link
    IN  IF in.bold THEN <<R("*", 1)>> \o inner \o <<R("*", 1)>> ELSE inner

MdInputs == [order : MdOrders, a : DOMAIN MdLinkTexts, c : DOMAIN MdCodes,
             sep : DOMAIN MdSeparators, bold : BOOLEAN]

Format(in) ==
    /\ Idle
    /\ run' = [StartRun("format", FALSE, "format", 0, NoVersion) EXCEPT
                  !.input = in,
                  !.output = process_message_for_markdown_v2(MdText(in))]
    /\ UNCHANGED <<entry, pushed, product, prepared, latest, body, versionFile, messageState>>
    /\ NothingDispatched

NextMarkdown ==
    \/ \E in \in MdInputs : Format(in)
    \/ Exit

SpecMarkdown == Init /\ [][NextMarkdown]_vars

\* ------------------------------------------------------------------------
\* Properties of send_bilingual_notification, under SpecDispatch.  run holds
\* the dispatch just made; run.lens are the escaped lengths of the combined,
\* the English and the Chinese message.
\* ------------------------------------------------------------------------
Sent == run.dispatch = "send"

CombinedFits == run.lens[1] <= MAX_MESSAGE_LENGTH
EnglishFits  == run.lens[2] <= MAX_MESSAGE_LENGTH
ChineseFits  == run.lens[3] <= MAX_MESSAGE_LENGTH

\* C1: whenever the escaped length of the combined message is at most 4096,
\* the dispatch makes exactly one send call and sends no second message.
C1_CombinedFitsOneSend ==
    (Sent /\ CombinedFits) =>
        /\ Len(run.calls) = 1
        /\ run.calls[1].op = "send"

\* a dispatch whose combined message fits and that sends nothing
C1_NothingSent ==
    /\ Sent /\ CombinedFits
    /\ run.calls = <<>>
    /\ ~run.success

\* C2: when the combined message is longer than 4096 and both single-language
\* messages are at most 4096, exactly two send calls are made, the English
\* message first and the Chinese message second, the Chinese one whether or
\* not the English send succeeded, and success is reported exactly when both
\* sends succeeded.
C2_SplitTwoSends ==
    (Sent /\ ~CombinedFits /\ EnglishFits /\ ChineseFits) =>
        /\ Len(run.calls) = 2
        /\ run.calls[1].op = "send" /\ run.calls[1].msg = "en"
        /\ run.calls[1].len = run.lens[2]
        /\ run.calls[2].op = "send" /\ run.calls[2].msg = "cn"
        /\ run.calls[2].len = run.lens[3]
        /\ run.success <=> (run.calls[1].ok /\ run.calls[2].ok)

\* a split dispatch whose English send was rejected and whose Chinese send
\* was made, and accepted, all the same
C2_ChineseAfterFailedEnglish ==
    /\ Sent /\ ~CombinedFits /\ EnglishFits /\ ChineseFits
    /\ Len(run.calls) = 2
    /\ ~run.calls[1].ok /\ run.calls[2].ok
    /\ ~run.success

\* C3: when a single-language message is longer than 4096, publish_changelog
\* is invoked exactly once; the one message then sent contains the URL the
\* publish returned; if the publish fails no message is sent, the dispatch
\* reports failure and its message_ids are empty.
C3_FallbackPublishesOnce ==
    (Sent /\ (~EnglishFits \/ ~ChineseFits)) =>
        /\ run.publishes = 1
        /\ run.url # NoUrl =>
             /\ Len(run.calls) = 1
             /\ run.calls[1].op = "send"
             /\ run.url[1].n \in run.calls[1].urls
             /\ run.calls[1].len <= MAX_MESSAGE_LENGTH
        /\ run.url = NoUrl =>
             /\ run.calls = <<>>
             /\ ~run.success
             /\ run.ids = <<>>

\* a fallback dispatch whose page was made at the second request and whose
\* short message was accepted
C3_LinkSent ==
    /\ Sent /\ ~ChineseFits
    /\ run.pages = 2 /\ run.url # NoUrl
    /\ run.success /\ Len(run.ids) = 1

\* C4: the classification is decided in the order combined, split, fallback:
\* the fallback is chosen only when the combined length exceeds the limit
\* and some single-language length exceeds it, and a combined length of at
\* most 4096 always yields the Combined rendering.
C4_CombinedTestedFirst ==
    Sent =>
        /\ run.rendering = "ExternalFallback" =>
             (~CombinedFits /\ (~EnglishFits \/ ~ChineseFits))
        /\ CombinedFits => run.rendering = "Combined"

\* a dispatch whose combined message fits and that goes to the fallback
C4_FallbackThoughCombinedFits ==
    /\ Sent /\ CombinedFits /\ ~EnglishFits
    /\ run.rendering = "ExternalFallback"
    /\ run.success

\* ------------------------------------------------------------------------
\* Properties of the checkers, under Spec.  run holds what the run in
\* progress did; run.pre are the files as the run found them.
\* ------------------------------------------------------------------------
TrackedBefore == run.pre.messageState

\* a check run that finds the recorded version upstream
SameVersionRun ==
    /\ run.kind = "check"
    /\ run.latest # NoVersion
    /\ run.pre.versionFile = run.latest

\* C5: a check run of either checker that observes the recorded version and
\* whose content digest equals the body_hash of the persisted message state
\* makes no send call and no edit call.
C5_SameContentNoCall ==
    (/\ SameVersionRun
     /\ TrackedBefore.exists
     /\ TrackedBefore.body_hash = compute_body_hash(product, body)) =>
        run.calls = <<>>

\* a run that found a record of the latest version with the digest of the
\* present content
C5_UnchangedContentSeen ==
    /\ SameVersionRun
    /\ TrackedBefore.exists
    /\ TrackedBefore.version = run.latest
    /\ TrackedBefore.message_ids # <<>>
    /\ TrackedBefore.body_hash = compute_body_hash(product, body)
    /\ run.path = "up_to_date"

\* the edit of one tracked message whose content no longer fits one message
GrowCase ==
    /\ SameVersionRun
    /\ run.dispatch = "edit"
    /\ TrackedBefore.body_hash # compute_body_hash(product, body)
    /\ Len(TrackedBefore.message_ids) = 1
    /\ ~CombinedFits /\ EnglishFits /\ ChineseFits

EditThenSend ==
    /\ Len(run.calls) = 2
    /\ run.calls[1].op = "edit" /\ run.calls[1].msg = "en"
    /\ run.calls[1].target = TrackedBefore.message_ids[1]
    /\ run.calls[1].len = run.lens[2]
    /\ run.calls[2].op = "send" /\ run.calls[2].msg = "cn"
    /\ run.calls[2].len = run.lens[3]

\* C6 as stated: in the grow case the run performs edit(msg1, English)
\* followed by send(Chinese), and on success the persisted message_ids are
\* the original id followed by the id of the new Chinese message.
C6_PersistedIdsGrow ==
    GrowCase =>
        /\ EditThenSend
        /\ run.success =>
             /\ messageState.exists
             /\ messageState.message_ids =
                  TrackedBefore.message_ids \o <<run.calls[2].id>>

\* C6, amended: in the grow case the run performs edit(msg1, English) followed
\* by send(Chinese); on success the ids the edit returns are the original id
\* followed by the id of the new message, they are the persisted ids if the
\* message-state file could be written, and the file is left as it was if not.
C6_EditGrowsToTwo ==
    GrowCase =>
        /\ EditThenSend
        /\ run.success =>
             /\ run.ids = TrackedBefore.message_ids \o <<run.calls[2].id>>
             /\ Len(run.ids) = 2
             /\ run.io => messageState = StateRecord(run.latest, run.ids,
                                                     compute_body_hash(product, body))
             /\ ~run.io => messageState = TrackedBefore

\* a successful grow whose two ids were persisted
C6_GrownAndSaved ==
    /\ GrowCase
    /\ run.success /\ run.io
    /\ Len(messageState.message_ids) = 2
    /\ messageState.message_ids[1] = TrackedBefore.message_ids[1]

\* C7: in both checkers, when the edit of the notification reports failure
\* the run removes the message-state record (here: whenever the file system
\* carries the removal out).
C7_FailedEditClears ==
    (run.dispatch = "edit" /\ ~run.success /\ run.io) => ~messageState.exists

\* a Codex run whose edit failed and that left the record in place
C7_CodexKeepsRecord ==
    /\ product = "codex"
    /\ run.dispatch = "edit" /\ ~run.success /\ run.io
    /\ messageState.exists
    /\ messageState = TrackedBefore

\* the first check run to observe a version after a run whose edit failed and
\* which removed the record, when the version it observes is the same
AfterClearRun == run.kind = "check" /\ run.afterClear

\* C8 as stated: that next run dispatches the notification for the version
\* again with send.
C8_ResendsAfterClear ==
    AfterClearRun => \E k \in 1..Len(run.calls) : run.calls[k].op = "send"

\* C8, amended: that next run, when it is not a forced push, makes neither a
\* send nor an edit call, exits with status 0 and leaves the version file as
\* it was and the message-state record absent.
C8_NothingAfterClear ==
    AfterClearRun =>
        /\ run.calls = <<>>
        /\ run.exit = 0
        /\ versionFile = run.pre.versionFile
        /\ ~TrackedBefore.exists
        /\ ~messageState.exists

\* such a run has taken place, after the content changed once more
C8_RunAfterClear ==
    /\ AfterClearRun
    /\ run.path = "up_to_date"
    /\ run.latest = latest
    /\ versionFile = latest

\* C9 as stated: whenever a message-state record exists, its digest is that
\* of the content of the most recent dispatch (send or edit, forced pushes
\* included) that reported success.
C9_HashOfLastSuccess ==
    messageState.exists => messageState.body_hash = lastOkHash

\* C9, amended: whenever a message-state record exists, its digest is that of
\* the content of the most recent successful dispatch of a run that was not
\* a forced push and whose write of the message-state file succeeded.
C9_HashOfLastKept ==
    messageState.exists => messageState.body_hash = lastKeptHash

\* a forced push of changed content succeeded while a record exists
C9_ForcedPushAfterRecord ==
    /\ messageState.exists
    /\ run.kind = "force" /\ run.success
    /\ lastOkHash # messageState.body_hash
    /\ lastKeptHash = messageState.body_hash

\* C10: every id in the persisted message_ids was returned by a successful
\* send call made for the version recorded in the same record.
C10_IdsWereSent ==
    messageState.exists =>
        \A k \in 1..Len(messageState.message_ids) :
            <<messageState.message_ids[k], messageState.version>> \in sentOk

\* a record of two ids written after a split notification of a new version
C10_TwoIdsRecorded ==
    /\ messageState.exists
    /\ Len(messageState.message_ids) = 2
    /\ run.path = "notified"
    /\ messageState.version = run.latest

\* ------------------------------------------------------------------------
\* Properties of what the two dispatch functions hand to the transport
\* ------------------------------------------------------------------------
\* the run made a dispatch (a send or an edit of a tracked notification)
Dispatching == run.dispatch \in {"send", "edit"}

\* the number of messages tracked when the run started
TrackedCount == Len(run.pre.messageState.message_ids)

\* C11: every message that send_bilingual_notification or
\* edit_bilingual_notification hands to the transport, whether one or two
\* messages were tracked before, has an escaped length of at most 4096.
C11_BodiesWithinLimit ==
    Dispatching =>
        \A k \in 1..Len(run.calls) : run.calls[k].len <= MAX_MESSAGE_LENGTH

\* an edit of two tracked messages whose combined text is over the limit:
\* the English and the Chinese message are handed over, each within it
C11_TwoEditsOfLongContent ==
    /\ run.dispatch = "edit"
    /\ TrackedCount = 2
    /\ ~CombinedFits
    /\ Len(run.calls) = 2
    /\ run.calls[1].msg = "en" /\ run.calls[2].msg = "cn"
    /\ run.calls[1].len > 0 /\ run.calls[2].len > 0

\* ------------------------------------------------------------------------
\* Properties of the exit status and of the files a run leaves behind
\* ------------------------------------------------------------------------
\* a run of a checker without --force
CheckRun == run.kind = "check" /\ ~run.force

\* the run sent the notification of a newly detected version and the send
\* reported failure
NewVersionSendFailed == CheckRun /\ run.path = "send_failed"

\* C12: every run without --force in which the fetch of the changelog or
\* of the feed fails, or in which the send of the notification reports
\* failure, ends with a non-zero exit status, in both checkers.
C12_FailureExitsNonZero ==
    (CheckRun /\ (run.path = "fetch_failed" \/ (Sent /\ ~run.success))) =>
        run.exit # 0

\* a run of the Codex checker whose send reported failure and that ends
\* with exit status 0
C12_CodexSendFailedExitZero ==
    /\ product = "codex"
    /\ NewVersionSendFailed
    /\ Sent /\ ~run.success
    /\ run.exit = 0

\* C13: a run in which the send of the notification of a newly detected
\* version fails leaves the version file and the message-state record as
\* they were before the run.
C13_FailedSendWritesNothing ==
    NewVersionSendFailed =>
        /\ versionFile = run.pre.versionFile
        /\ messageState = run.pre.messageState

\* a run whose send failed and that has already moved the version file to
\* the new version
C13_VersionSavedBeforeFailedSend ==
    /\ NewVersionSendFailed
    /\ ~run.success
    /\ run.pre.versionFile # run.latest
    /\ versionFile = run.latest
    /\ messageState = run.pre.messageState

\* ------------------------------------------------------------------------
\* The dispatch when the translation service answers with the empty string
\* ------------------------------------------------------------------------
\* the dispatch was made with the empty translation
NoTranslation == Sent /\ Translations[run.translated] = <<>>

\* C14: with the empty translation send_bilingual_notification never splits
\* and never sends the Chinese message with the placeholder: it sends one
\* message, the title and the original text, or takes the Telegraph fallback.
C14_EmptyTranslationOneMessage ==
    NoTranslation =>
        /\ run.rendering \in {"Combined", "ExternalFallback"}
        /\ \A k \in 1..Len(run.calls) : run.calls[k].msg # "cn"
        /\ run.rendering = "Combined" =>
              /\ Len(run.calls) = 1
              /\ run.calls[1].op = "send"
              /\ run.calls[1].msg = "combined"
              /\ run.calls[1].len = run.lens[2]
              /\ run.success = run.calls[1].ok

\* a dispatch without translation that the Bot API accepted: one message,
\* as long as the English one, and longer than the Chinese one would be
C14_OriginalOnlySent ==
    /\ NoTranslation
    /\ run.success
    /\ Len(run.calls) = 1
    /\ run.calls[1].msg = "combined"
    /\ run.calls[1].len = run.lens[2]
    /\ run.lens[3] < run.lens[2]

\* ------------------------------------------------------------------------
\* Properties of publish_changelog, under SpecPublish
\* ------------------------------------------------------------------------
Published == run.kind = "publish"

\* no part of the content holds a Changelog section
NoChangelogSection(content) ==
    \A k \in 1..Len(content) : SectionStart(content[k], 1) = 0

\* the part q is the start of the part p
IsPrefix(q, p) == Len(q) <= Len(p) /\ q = SubSeq(p, 1, Len(q))

\* C15: publish_changelog makes one or two create_page calls; it makes the
\* second, whose content is the first without the Changelog sections,
\* exactly when the first failed with CONTENT_TOO_BIG; after success or any
\* other failure the result of the first call is returned.
C15_RetryOnlyWhenTooBig ==
    Published =>
        LET calls == run.created
            full  == build_html(ChangelogTexts[run.body],
                                ChangelogTranslations[run.translated])
        IN  /\ Len(calls) \in {1, 2}
            /\ calls[1].content = full
            /\ Len(calls) = 2 <=> calls[1].answer = "CONTENT_TOO_BIG"
            /\ Len(calls) = 1 =>
                  /\ run.success = (calls[1].answer = "ok")
                  /\ run.url = create_page(calls[1].answer, 1).url
            /\ Len(calls) = 2 =>
                  /\ NoChangelogSection(calls[2].content)
                  /\ IsPrefix(calls[2].content[1], full[1])
                  /\ Len(calls[2].content) = 3 => IsPrefix(calls[2].content[3], full[3])
                  /\ run.success = (calls[2].answer = "ok")

\* a publish whose first request was too big and whose second, with shorter
\* content, made the page
C15_SecondCallShorter ==
    /\ Published
    /\ Len(run.created) = 2
    /\ run.created[1].answer = "CONTENT_TOO_BIG"
    /\ run.created[2].answer = "ok"
    /\ run.created[2].content # run.created[1].content
    /\ run.success /\ run.url = PageUrl(2)

\* ------------------------------------------------------------------------
\* Properties of the history pushers, under SpecPusher
\* ------------------------------------------------------------------------
InRetryLoop == InPusher("sending")

\* an iteration of the retry loop: one more send_bilingual_notification call
AttemptMade == run'.attempts > run.attempts

\* C16: for each version send_bilingual_notification is invoked at most
\* MAX_RETRY times, no attempt follows one that reported success, and the
\* retry loop always comes to an end.
C16_RetryLoopBounded ==
    /\ [](run.kind = "push" => run.attempts <= MAX_RETRY)
    /\ [][AttemptMade => (~run.success /\ run.attempts < MAX_RETRY)]_vars
    /\ InRetryLoop ~> ~InRetryLoop

\* a version whose first two attempts failed and whose third succeeded
C16_ThirdAttemptSucceeds ==
    /\ InPusher("sent")
    /\ run.attempts = MAX_RETRY
    /\ run.success

\* ------------------------------------------------------------------------
\* Properties of edit_bilingual_notification
\* ------------------------------------------------------------------------
Edited == run.dispatch = "edit" /\ TrackedCount \in {1, 2}

\* the rendering send_bilingual_notification chooses for the content of the
\* run (the answers of the services have no part in the choice)
SendRendering ==
    SendBilingual(Messages(run.body, run.translated),
                  [r1 |-> TRUE, r2 |-> TRUE, page1 |-> "ok", page2 |-> "ok"],
                  1).rendering

\* C17 as stated: whether one or two messages are tracked, the rendering of
\* the edit is the one send_bilingual_notification chooses for the same
\* content.
C17_EditRendersAsSend ==
    Edited => run.rendering = SendRendering

\* C17, amended: the edit takes the Telegraph fallback exactly when the send
\* would; otherwise, with one tracked message it renders as the send would
\* (Combined or SplitBilingual), and with two tracked messages it edits the
\* English and the Chinese message whether or not the combined one fits.
C17_EditRendersByTracked ==
    Edited =>
        /\ run.rendering = "ExternalFallback" <=> SendRendering = "ExternalFallback"
        /\ TrackedCount = 1 => run.rendering = SendRendering
        /\ (TrackedCount = 2 /\ SendRendering # "ExternalFallback") =>
              run.rendering = "SplitBilingual"

\* an edit of two tracked messages with content that the send would put in
\* one combined message
C17_TwoEditsThoughCombinedFits ==
    /\ Edited
    /\ TrackedCount = 2
    /\ SendRendering = "Combined"
    /\ run.rendering = "SplitBilingual"
    /\ Len(run.calls) = 2

\* C18: when two message ids are tracked and neither single-language
\* message is longer than 4096, the edit edits the first tracked message
\* into the English message and the second into the Chinese one, sends
\* nothing, and returns the same two ids.
C18_BothEditedInPlace ==
    (Edited /\ TrackedCount = 2 /\ EnglishFits /\ ChineseFits) =>
        LET ids == TrackedBefore.message_ids
        IN  /\ Len(run.calls) = 2
            /\ \A k \in 1..2 : run.calls[k].op = "edit" /\ run.calls[k].target = ids[k]
            /\ run.calls[1].msg = "en" /\ run.calls[1].len = run.lens[2]
            /\ run.calls[2].msg = "cn" /\ run.calls[2].len = run.lens[3]
            /\ run.ids = ids
            /\ run.success = (run.calls[1].ok /\ run.calls[2].ok)

\* an edit of two tracked messages of which the Bot API refused the second:
\* both ids are returned all the same
C18_SecondEditRefused ==
    /\ Edited /\ TrackedCount = 2 /\ EnglishFits /\ ChineseFits
    /\ run.calls[1].ok /\ ~run.calls[2].ok
    /\ ~run.success
    /\ run.ids = TrackedBefore.message_ids

\* ------------------------------------------------------------------------
\* Properties of process_message_for_markdown_v2, under SpecMarkdown
\* ------------------------------------------------------------------------
Formatted == run.kind = "format"

\* the text holds the span, run for run
Contains(text, span) ==
    \E i \in 1..(Len(text) - Len(span) + 1) :
        SubSeq(text, i, i + Len(span) - 1) = span

\* the link and the code span of the input as the output is to hold them:
\* delimiters as they are, link text and code content escaped
EscapedLink == MdLink(escape_markdown(MdLinkTexts[run.input.a]), MdUrl)
EscapedCode == MdCode(escape_markdown(MdCodes[run.input.c]))

\* C19: for every text that holds a link [a](b) and a code span `c`, the
\* output holds both with their delimiters unescaped, the link text and the
\* code content each escaped on their own.
C19_BothSpansKept ==
    Formatted =>
        /\ Contains(run.output, EscapedLink)
        /\ Contains(run.output, EscapedCode)

\* a code span whose content is an opening bracket, followed by a link: the
\* output holds neither the code span nor the link [a](b)
C19_BracketInCodeSwallowed ==
    /\ Formatted
    /\ run.input.order = "code_link"
    /\ MdCodes[run.input.c] = <<R("[", 1)>>
    /\ ~Contains(run.output, EscapedCode)
    /\ ~Contains(run.output, EscapedLink)

\* ------------------------------------------------------------------------
\* The entry point: main.py runs the checkers of CHECKERS one after the
\* other, each as a process of its own
\* ------------------------------------------------------------------------
CHECKERS == <<"claude_code", "codex">>

\* return codes of a checker whose files are not the ones followed here
ReturnCodes == {0, 1}

\* subprocess.run raised SubprocessError or OSError: there is no return code
NotStarted == [started |-> FALSE, returncode |-> 1]

Returned(code) == [started |-> TRUE, returncode |-> code]

\* run_checker: True when the process ran and its return code is 0
run_checker(outcome) == outcome.started /\ outcome.returncode = 0

\* a loop that ends at the first checker that did not succeed
AfterCheckerStopAtFailure(e, outcome) ==
    [pc |-> "loop",
     i |-> IF run_checker(outcome) THEN e.i + 1 ELSE Len(CHECKERS) + 1,
     success_count |-> e.success_count + (IF run_checker(outcome) THEN 1 ELSE 0),
     ran |-> Append(e.ran, [name |-> CHECKERS[e.i], outcome |-> outcome])]

\* one round of the loop of main: success_count grows when run_checker is
\* true, and the loop goes on to the next checker either way
AfterChecker(e, outcome) ==
    [pc |-> "loop",
     i |-> e.i + 1,
     success_count |-> e.success_count + (IF run_checker(outcome) THEN 1 ELSE 0),
     ran |-> Append(e.ran, [name |-> CHECKERS[e.i], outcome |-> outcome])]

\* main.py is started: success_count = 0, the loop is at the first checker
MainStart ==
    /\ entry = NoEntry
    /\ run = NoRun
    /\ entry' = [pc |-> "loop", i |-> 1, success_count |-> 0, ran |-> <<>>]
    /\ UNCHANGED <<pushed, product, prepared, latest, body, versionFile, messageState,
                   nextId, run, clearedFor, lastOkHash, lastKeptHash, sentOk>>

\* the loop is at a checker and no process of it runs yet
AtChecker ==
    /\ entry.pc = "loop"
    /\ entry.i <= Len(CHECKERS)
    /\ run = NoRun

\* subprocess.run starts the checker of the followed product without
\* arguments: the checker runs as it does on its own
MainChild ==
    /\ AtChecker
    /\ CHECKERS[entry.i] = product
    /\ \/ \E fetched \in BOOLEAN : ClaudeNoChangelog(FALSE, NoVersion, fetched)
       \/ \E saveOk \in BOOLEAN : ClaudeFirstRun(saveOk)
       \/ ClaudeUpToDate
       \/ \E t \in RunTranslations, ioOk \in BOOLEAN : ClaudeEdit(t, ioOk)
       \/ ClaudeNewSaveFailed
       \/ \E t \in RunTranslations, stateOk \in BOOLEAN : ClaudeNew(t, stateOk)
       \/ CodexMain

\* the process of the checker ends; run_checker looks at its return code
MainChildReturns ==
    /\ entry.pc = "loop"
    /\ run # NoRun
    /\ ProcessExits
    /\ entry' = AfterChecker(entry, Returned(run.exit))

\* the checker of the other product runs and ends with a return code
MainOtherChild(code) ==
    /\ AtChecker
    /\ CHECKERS[entry.i] # product
    /\ entry' = AfterChecker(entry, Returned(code))
    /\ UNCHANGED <<pushed, product, prepared, latest, body, versionFile, messageState,
                   nextId, run, clearedFor, lastOkHash, lastKeptHash, sentOk>>

\* subprocess.run raises: run_checker returns False
MainChildNotStarted ==
    /\ AtChecker
    /\ entry' = AfterChecker(entry, NotStarted)
    /\ UNCHANGED <<pushed, product, prepared, latest, body, versionFile, messageState,
                   nextId, run, clearedFor, lastOkHash, lastKeptHash, sentOk>>

\* the loop is over: main prints success_count/len(CHECKERS)
MainReport ==
    /\ entry.pc = "loop"
    /\ entry.i > Len(CHECKERS)
    /\ entry' = [entry EXCEPT !.pc = "reported"]
    /\ UNCHANGED <<pushed, product, prepared, latest, body, versionFile, messageState,
                   nextId, run, clearedFor, lastOkHash, lastKeptHash, sentOk>>

\* the process of main.py ends
MainExit ==
    /\ entry.pc = "reported"
    /\ entry' = NoEntry
    /\ UNCHANGED <<pushed, product, prepared, latest, body, versionFile, messageState,
                   nextId, run, clearedFor, lastOkHash, lastKeptHash, sentOk>>

NextMain ==
    \/ \E b \in ReleaseBodies : Release(b)
    \/ \E b \in ReleaseBodies : Amend(b)
    \/ MainStart
    \/ MainChild
    \/ MainChildReturns
    \/ \E code \in ReturnCodes : MainOtherChild(code)
    \/ MainChildNotStarted
    \/ MainReport
    \/ MainExit

SpecMain == Init /\ [][NextMain]_vars

\* the checkers that succeeded among those run so far
Succeeded == {k \in 1..Len(entry.ran) : run_checker(entry.ran[k].outcome)}

\* C20: main.py goes through CHECKERS in order, one process at a time: at
\* every moment the checkers run so far are the first ones of CHECKERS, each
\* once, whatever their outcomes were, a checker process runs only while
\* the loop is at that checker, and success_count is the number of checkers
\* that ended with return code 0; when the count is reported every checker
\* of CHECKERS has been run
C20_EachCheckerOnceAndCounted ==
    /\ entry.pc \in {"loop", "reported"} =>
          /\ Len(entry.ran) = entry.i - 1
          /\ Len(entry.ran) <= Len(CHECKERS)
          /\ \A k \in 1..Len(entry.ran) : entry.ran[k].name = CHECKERS[k]
          /\ entry.success_count = Cardinality(Succeeded)
    /\ entry.pc = "reported" => Len(entry.ran) = Len(CHECKERS)
    /\ (entry # NoEntry /\ run # NoRun) =>
          /\ entry.pc = "loop"
          /\ entry.i <= Len(CHECKERS)
          /\ CHECKERS[entry.i] = product

\* the first checker ended with a return code other than 0, the second ran
\* all the same and succeeded: 1 of 2 is reported
C20_SecondRunsAfterFailedFirst ==
    /\ entry.pc = "reported"
    /\ entry.ran[1].outcome.started
    /\ entry.ran[1].outcome.returncode # 0
    /\ run_checker(entry.ran[2].outcome)
    /\ entry.success_count = 1

\* a check run that found a latest version and no last-seen version record
FirstRunCase ==
    /\ CheckRun
    /\ run.latest # NoVersion
    /\ run.pre.versionFile = NoVersion

\* what every first run leaves alone: no request to the Bot API or to
\* Telegraph, no write of the message-state record, exit status 0
FirstRunQuiet ==
    /\ run.path = "first_run"
    /\ run.dispatch = None
    /\ run.calls = <<>>
    /\ run.publishes = 0
    /\ messageState = run.pre.messageState
    /\ run.exit = 0

RecordsUntouched ==
    /\ versionFile = run.pre.versionFile
    /\ messageState = run.pre.messageState

\* a run of the Claude Code checker with --force
ForcedRun == run.kind = "force" /\ run.force

\* a run with --target-version and without --force
TargetWithoutForce == run.kind \in {"check", "force"} /\ run.target # NoVersion /\ ~run.force

\* C22: a run with --force, with or without --target-version and whether
\* its send succeeds or fails, leaves the last-seen version file and the
\* message-state record as they were; a run with --target-version and
\* without --force ends with status 1 having fetched nothing and sent
\* nothing
C22_ForceLeavesRecords ==
    /\ ForcedRun => RecordsUntouched
    /\ TargetWithoutForce =>
          /\ run.exit = 1
          /\ run.path = "bad_args"
          /\ run.latest = NoVersion
          /\ run.dispatch = None
          /\ run.calls = <<>>
          /\ run.publishes = 0
          /\ RecordsUntouched

\* a forced push of an older version whose send failed, made while a
\* message-state record for the latest version exists
C22_ForcedSendFailedRecordKept ==
    /\ ForcedRun
    /\ run.path = "forced"
    /\ run.target # NoVersion
    /\ run.target < run.latest
    /\ ~run.success
    /\ run.calls # <<>>
    /\ messageState.exists
    /\ messageState.version = run.latest

\* a check run of the Claude Code checker that found a version other than
\* the recorded one
ClaudeNewVersionRun ==
    /\ product = "claude_code"
    /\ CheckRun
    /\ run.latest # NoVersion
    /\ run.pre.versionFile \notin {NoVersion, run.latest}

\* C23: in a run of the Claude Code checker that finds a new version, a
\* translation or a send is made only when the last-seen version record
\* holds the new version; when save_version fails the record is as before,
\* nothing is translated, no request is made and the run ends with status 1
C23_SendOnlyAfterVersionWritten ==
    ClaudeNewVersionRun =>
       /\ run.path \in {"notified", "send_failed", "version_save_failed"}
       /\ (run.dispatch # None \/ run.calls # <<>> \/ run.translated # 0)
             => versionFile = run.latest
       /\ run.path = "version_save_failed" =>
             /\ versionFile = run.pre.versionFile
             /\ messageState = run.pre.messageState
             /\ run.dispatch = None
             /\ run.translated = 0
             /\ run.calls = <<>>
             /\ run.publishes = 0
             /\ run.exit = 1

\* the version record could not be written for a new version: the record
\* still holds the version before, nothing was requested, the status is 1
C23_SaveFailedNothingSent ==
    /\ ClaudeNewVersionRun
    /\ run.path = "version_save_failed"
    /\ versionFile = run.pre.versionFile
    /\ versionFile < run.latest
    /\ run.calls = <<>>
    /\ run.exit = 1

\* the last-seen version record holds the upstream latest version
RecordHoldsLatest == latest # NoVersion /\ versionFile = latest

\* this step starts a non-forced run that calls send_bilingual_notification
StartsCheckSend ==
    /\ run = NoRun
    /\ run'.kind = "check"
    /\ ~run'.force
    /\ run'.dispatch = "send"

\* C24: while the upstream latest version stays V and the last-seen version
\* record holds V, the record goes on holding V and no non-forced run calls
\* send_bilingual_notification; a run that finds the record holding the
\* latest version has made no such call, whatever became of the send of the
\* run that detected V
C24_NoSendOnceRecorded ==
    /\ [][(RecordHoldsLatest /\ latest' = latest)
             => (versionFile' = versionFile /\ ~StartsCheckSend)]_vars
    /\ []((CheckRun /\ run.latest # NoVersion /\ run.pre.versionFile = run.latest)
             => (run.dispatch # "send" /\ versionFile = run.latest))

\* a later run finds the second version recorded, no notification of it
\* tracked and no message ever accepted by the Bot API: it sends nothing
C24_NotResentAfterFailure ==
    /\ CheckRun
    /\ run.path = "up_to_date"
    /\ run.latest = 2
    /\ run.pre.versionFile = 2
    /\ ~messageState.exists
    /\ nextId = 1
    /\ run.calls = <<>>

\* the requests of the run that edit a message
EditCalls == {k \in 1..Len(run.calls) : run.calls[k].op = "edit"}

\* the message ids of a sequence
IdsOf(ids) == {ids[k] : k \in 1..Len(ids)}

\* a check run that called edit_bilingual_notification
EditRun == CheckRun /\ run.dispatch = "edit"

RecoverableBeforeStable(feed) ==
    /\ feed.xml_ok
    /\ \E k \in 1..Len(feed.entries) :
          /\ feed.entries[k] = "recoverable"
          /\ \A j \in 1..(k - 1) : feed.entries[j] # "stable"

\* what parse_latest_stable_release returns for the feeds with such an entry
RecoverableResults ==
    {parse_latest_stable_release(feed) : feed \in {f \in Feeds : RecoverableBeforeStable(f)}}

\* the run ended with an error of parse_latest_stable_release
ParseErrorRun == run.kind = "check" /\ run.path = "parse_error"

\* C26: every run of the Codex checker on a feed in which the verification
\* of an entry examined before the first stable one ended in a recoverable
\* error gets an error and no release from parse_latest_stable_release,
\* even when a stable release was found further down, and ends with status
\* 1; a run that ends so has written no record and made no request
C26_RecoverableErrorStopsRun ==
    /\ [][\A r \in RecoverableResults :
             CodexParsed(r) =>
                /\ r.error # None
                /\ r.tag = 0
                /\ run'.path = "parse_error"
                /\ run'.exit = 1
                /\ run'.latest = NoVersion]_vars
    /\ [](ParseErrorRun =>
             /\ run.exit = 1
             /\ run.error # None
             /\ RecordsUntouched
             /\ run.dispatch = None
             /\ run.calls = <<>>
             /\ run.publishes = 0)

\* a run stopped by a recoverable error at the first entry although the
\* second entry was verified as stable, while a notification is tracked
C26_StableFoundButError ==
    /\ ParseErrorRun
    /\ run.error = "api_errors"
    /\ run.api_errors = <<1>>
    /\ run.found_stable = 2
    /\ messageState.exists
    /\ versionFile = latest

\* the versions of a sequence
VersionsOf(queue) == {queue[k] : k \in 1..Len(queue)}

\* C27: the file of pushed versions only grows, and only by the version in
\* hand after an attempt of the retry loop reported success; once the
\* retries of a version are used up the run makes no further attempt,
\* records nothing and ends, so the pending versions after it are neither
\* attempted nor recorded in that run
C27_RecordedOnlyAfterSuccess ==
    /\ [][pushed' # pushed =>
             /\ InPusher("sent")
             /\ run.success
             /\ run.attempts \in 1..MAX_RETRY
             /\ pushed' = pushed \cup {run.version}]_vars
    /\ [][InPusher("exhausted") =>
             /\ run'.path = "stopped"
             /\ run'.queue = run.queue
             /\ pushed' = pushed
             /\ nextId' = nextId]_vars
    /\ [][InPusher("stopped") => run' = NoRun /\ pushed' = pushed /\ nextId' = nextId]_vars
    /\ [](run.kind = "push" /\ run.path \in {"exhausted", "stopped"} =>
             /\ ~run.success
             /\ run.attempts = MAX_RETRY
             /\ VersionsOf(run.queue) \cap pushed = {})
    /\ (InPusher("exhausted") ~> InPusher("stopped"))

\* the retries of the first of two pending versions were used up: the run
\* stopped with both still pending and nothing recorded
C27_StoppedBeforeSecondVersion ==
    /\ InPusher("stopped")
    /\ Len(run.queue) = 2
    /\ run.version = Head(run.queue)
    /\ run.attempts = MAX_RETRY
    /\ run.pushes = 0
    /\ pushed = {}

\* the requests of the run that sent a new message the Bot API accepted
NewMessages == AcceptedSends(run.calls)

\* the run edited the first tracked message and the Bot API accepted it
FirstEditSucceeded ==
    \E k \in EditCalls :
       /\ run.calls[k].target = run.pre.messageState.message_ids[1]
       /\ run.calls[k].ok

\* C28 as stated: a run that calls edit_bilingual_notification sends a new
\* message only when its edit of the first tracked message succeeded
C28_NoSendAfterFailedEdit ==
    (EditRun /\ NewMessages # {}) => FirstEditSucceeded

\* one message was tracked and the notification no longer fits in one: the
\* edit of the tracked message was refused, the Chinese message was sent
\* all the same and is on the channel, and the result lists no ids
C28_ChineseSentAfterFailedEdit ==
    /\ EditRun
    /\ TrackedCount = 1
    /\ Len(run.calls) = 2
    /\ run.calls[1].op = "edit" /\ ~run.calls[1].ok
    /\ run.calls[2].op = "send" /\ run.calls[2].msg = "cn" /\ run.calls[2].ok
    /\ ~run.success
    /\ run.ids = <<>>

\* a message of the version in hand was delivered more than once
DeliveredTwice ==
    \E i, j \in 1..Len(run.delivered) : i < j /\ run.delivered[i] = run.delivered[j]

\* C29 as stated: in a run of a history pusher no message of the version
\* in hand is delivered to the channel more than once
C29_NoDuplicateDelivery ==
    run.kind = "push" => ~DeliveredTwice

\* the first attempt delivered the English message and failed on the
\* Chinese one; the retry sent both again: the English message is on the
\* channel twice and the version counts as pushed
C29_EnglishDeliveredTwice ==
    /\ InPusher("sent")
    /\ run.attempts = 2
    /\ run.delivered = <<"en", "en", "cn">>
    /\ run.success

\* the number of message ids in the message-state record
Tracked == Len(messageState.message_ids)

\* this step rewrites the record of a version that had one
SameVersionRewritten ==
    /\ messageState.exists
    /\ messageState'.exists
    /\ messageState'.version = messageState.version

\* C30 as stated: a message-state record lists one or two message ids; for
\* a given version the number of ids never gets smaller, and it gets larger
\* (from one to two) only in a run whose edit succeeded and split the
\* notification
C30_IdsOneOrTwoNeverFewer ==
    /\ [](messageState.exists => Tracked \in {1, 2})
    /\ [][SameVersionRewritten =>
             /\ Len(messageState'.message_ids) >= Tracked
             /\ Len(messageState'.message_ids) > Tracked =>
                   /\ Tracked = 1
                   /\ run'.dispatch = "edit"
                   /\ run'.success
                   /\ run'.rendering = "SplitBilingual"]_vars

\* the Codex checker had saved a record with one id for the latest version
\* although its write of the version file failed; this run took the
\* version for a new one again, sent the notification again in two
\* messages and wrote a record with the two new ids: the list grew
\* without any edit
C30_ResentWithMoreIds ==
    /\ CheckRun
    /\ product = "codex"
    /\ run.dispatch = "send"
    /\ run.success
    /\ run.pre.messageState.exists
    /\ run.pre.messageState.version = run.latest
    /\ run.pre.versionFile # run.latest
    /\ Len(run.pre.messageState.message_ids) = 1
    /\ messageState.version = run.latest
    /\ Tracked = 2

====
